---- MODULE Spec2Model ----
(***************************************************************************)
(* Model of the Doppler lattice scan of DopplerLatticeCovering.c           *)
(* (src/unnamed/part_000, lines 211-1416).                                 *)
(*                                                                         *)
(* Numbers.  The C code computes in REAL8.  The model computes the same    *)
(* expressions in exact rational arithmetic: a rational is a pair <<n, d>> *)
(* in lowest terms with d > 0.  Angular units are chosen so that           *)
(* LAL_TWOPI = 1 and LAL_AU_SI / LAL_C_SI = 1.  All inputs lie on a grid   *)
(* that is far coarser than EPS_REAL8 = 1e-10, so gsl_fcmp (x, y, eps)     *)
(* is the sign of the exact difference x - y.  The third component of a    *)
(* sky vector, sqrt (|1 - nX^2 - nY^2|), is irrational: it is kept by its  *)
(* sign in {-1, 0, 1}, which is all that VECT_HEMI reads.                  *)
(*                                                                         *)
(* Vectors and matrices are functions on 0 .. n-1, as in the C code.       *)
(***************************************************************************)
EXTENDS Integers, Sequences, FiniteSets, TLC

(* ------------------------------ bounds --------------------------------- *)
\* sky positions of the inputs are multiples of 1 / SkyScale
SkyScale == 6
\* the scan is followed while every index component stays in -MaxIndex .. MaxIndex
MaxIndex == 4
\* the sky polygons with vertices on both hemispheres have up to MaxVertices vertices
MaxVertices == 4
\* ComplexAM.c is called with 1 .. MaxDetectors detectors
MaxDetectors == 2
\* each with 1 .. MaxSteps timestamps
MaxSteps == 2
\* the coefficients of one structure are weighed up to MaxWeighs times
MaxWeighs == 2

(* ----------------------- constants of the program ----------------------- *)
HEMI_BOTH == 0
HEMI_NORTH == 1
HEMI_SOUTH == 2
\* number of elements of PulsarSpins
numSpinsMax == 4

\* a null pointer: the vector, matrix or structure with nothing in it
NULL == << >>
STATE_IDLE == "STATE_IDLE"
STATE_READY == "STATE_READY"
STATE_FINISHED == "STATE_FINISHED"

(* ------------------------- rational arithmetic -------------------------- *)
Abs(x) == IF x < 0 THEN -x ELSE x

RECURSIVE GCD(_, _)
GCD(a, b) == IF b = 0 THEN a ELSE GCD(b, a % b)

\* the rational n / d (d # 0) in lowest terms, with a positive denominator
Q(n, d) ==
    LET g == GCD(Abs(n), Abs(d))
        s == IF d < 0 THEN -1 ELSE 1
    IN  << (s * n) \div g, (s * d) \div g >>

QInt(i) == << i, 1 >>
\* sums, products and comparisons reduce by common factors first, which keeps
\* the intermediate integers small
QAdd(a, b) ==
    LET g == GCD(a[2], b[2])
    IN  Q(a[1] * (b[2] \div g) + b[1] * (a[2] \div g), (a[2] \div g) * b[2])
QNeg(a) == << -a[1], a[2] >>
QSub(a, b) == QAdd(a, QNeg(b))
QMul(a, b) ==
    LET g1 == GCD(Abs(a[1]), b[2])
        g2 == GCD(Abs(b[1]), a[2])
    IN  Q((a[1] \div g1) * (b[1] \div g2), (a[2] \div g2) * (b[2] \div g1))
\* a / b for b # 0
QDiv(a, b) == QMul(a, IF b[1] < 0 THEN << -b[2], -b[1] >> ELSE << b[2], b[1] >>)
QLt(a, b) ==
    LET g == GCD(a[2], b[2])
    IN  a[1] * (b[2] \div g) < b[1] * (a[2] \div g)
QLe(a, b) == ~ QLt(b, a)
QMin(a, b) == IF QLt(a, b) THEN a ELSE b
QMax(a, b) == IF QLt(b, a) THEN a ELSE b
QZero == QInt(0)
QOne == QInt(1)

\* gsl_fcmp (x1, x2, EPS_REAL8) on grid values: the sign of x1 - x2
gsl_fcmp(x1, x2) == IF QLt(x2, x1) THEN 1 ELSE IF QLt(x1, x2) THEN -1 ELSE 0

\* SQUARE(x)
SQUARE(x) == QMul(x, x)

RECURSIVE Pow(_, _)
Pow(b, e) == IF e = 0 THEN 1 ELSE b * Pow(b, e - 1)

\* sum of f(k) for k in 0 .. n-1
RECURSIVE QSum(_, _)
QSum(f, n) == IF n = 0 THEN QZero ELSE QAdd(QSum(f, n - 1), f[n - 1])

RECURSIVE ISum(_, _)
ISum(f, n) == IF n = 0 THEN 0 ELSE ISum(f, n - 1) + f[n - 1]

\* VECT_HEMI: hemisphere of a 3D vector << x, y, sign of z >> (the C indices 0, 1, 2
\* are the tuple entries 1, 2, 3)
VECT_HEMI(x) == IF x[3] < 0 THEN HEMI_SOUTH ELSE IF x[3] > 0 THEN HEMI_NORTH ELSE 0

(* ------------------------------ vectors --------------------------------- *)
Size(v) == Cardinality(DOMAIN v)
\* gsl_vector_calloc (n) / gsl_vector_int_calloc (n)
QZeroVector(n) == [k \in 0 .. n - 1 |-> QZero]
ZeroIndex(n) == [k \in 0 .. n - 1 |-> 0]

\* empty_dopplerParams: vn = {0, 0, 0}, fkdot = {0, 0, 0, 0}
empty_dopplerParams ==
    [vn |-> << QZero, QZero, 0 >>, fkdot |-> [s \in 0 .. numSpinsMax - 1 |-> QZero]]

\* the 0-based C arrays vn[0], vn[1], vn[2] are the tuple entries 1, 2, 3
vnX(doppler) == doppler.vn[1]
vnY(doppler) == doppler.vn[2]

(* --------------------------- point in polygon --------------------------- *)
\* one pass of the loop over the sides of the polygon: << insideLeft, insideRight >>
\* after the sides 0 .. i-1
RECURSIVE PolygonCrossings(_, _, _, _)
PolygonCrossings(px, py, polygon, i) ==
    IF i = 0 THEN << 0, 0 >>
    ELSE
      LET N == polygon.length
          before == PolygonCrossings(px, py, polygon, i - 1)
          v1x == polygon.data[i - 1][1]
          v1y == polygon.data[i - 1][2]
          v2x == polygon.data[(i % N)][1]
          v2y == polygon.data[(i % N)][2]
      IN  IF QLt(py, QMin(v1y, v2y)) \/ QLe(QMax(v1y, v2y), py) \/ v1y = v2y
          THEN before
          ELSE
            LET xinter == QAdd(v1x, QDiv(QMul(QSub(py, v1y), QSub(v2x, v1x)),
                                         QSub(v2y, v1y)))
            IN  << before[1] + (IF QLt(px, xinter) THEN 1 ELSE 0),
                   before[2] + (IF QLt(xinter, px) THEN 1 ELSE 0) >>

\* vect2DInPolygon: 1 = TRUE, 0 = FALSE, -1 = ERROR
vect2DInPolygon(point, polygon) ==
    IF polygon.data = NULL THEN -1
    ELSE
      LET N == polygon.length
          px == point[1]
          py == point[2]
      IN  IF N = 1
          THEN IF gsl_fcmp(polygon.data[0][1], px) = 0 /\ gsl_fcmp(polygon.data[0][2], py) = 0
               THEN 1 ELSE 0
          ELSE IF N < 3 THEN -1
          ELSE
            LET c == PolygonCrossings(px, py, polygon, N)
            IN  IF (c[1] % 2) = 1 \/ (c[2] % 2) = 1 THEN 1 ELSE 0

(* ------------------------ coordinate conversions ------------------------ *)
\* canonical spins that all carry one power of the time span
convertSpins2CanonicalLinear(fkdot, Tspan) ==
    [s \in 0 .. numSpinsMax - 1 |-> QMul(QInt(Tspan), fkdot[s])]

\* convertSpins2Canonical: wk[s] = 2*pi * T^(s+1) * fkdot[s]
convertSpins2Canonical(fkdot, Tspan) ==
    [s \in 0 .. numSpinsMax - 1 |-> QMul(QInt(Pow(Tspan, s + 1)), fkdot[s])]

\* convertDoppler2Canonical: {w0, kX, kY, w1, w2, ...}, a vector of 2 + numSpinsMax
\* elements; alloc = FALSE is the failure of gsl_vector_calloc
convertDoppler2Canonical(canonicalPoint, doppler, Tspan, alloc) ==
    IF canonicalPoint # NULL THEN [rc |-> -1, vec |-> canonicalPoint]
    ELSE
      LET prefix == doppler.fkdot[0]
          kX == QMul(QNeg(prefix), vnX(doppler))
          kY == QMul(QNeg(prefix), vnY(doppler))
          wk == convertSpins2Canonical(doppler.fkdot, Tspan)
      IN  IF ~alloc THEN [rc |-> -1, vec |-> NULL]
          ELSE [rc |-> 0,
                vec |-> [k \in 0 .. 2 + numSpinsMax - 1 |->
                           IF k = 0 THEN wk[0]
                           ELSE IF k = 1 THEN kX
                           ELSE IF k = 2 THEN kY
                           ELSE wk[k - 2]]]

\* spins read one element too low in the canonical point
Canonical2SpinsShifted(canonical, numSpins, Tspan) ==
    [s \in 0 .. numSpinsMax - 1 |->
        IF s = 0 THEN QDiv(canonical[0], QInt(Tspan))
        ELSE IF s < numSpins THEN QDiv(canonical[s + 1], QInt(Pow(Tspan, s + 1)))
        ELSE QZero]

\* convertCanonical2Doppler, the spins: fkdot[s] = w_s / (2*pi * T^(s+1)) for the
\* numSpins spins of the canonical point, zero for the others
Canonical2Spins(canonical, numSpins, Tspan) ==
    [s \in 0 .. numSpinsMax - 1 |->
        IF s = 0 THEN QDiv(canonical[0], QInt(Tspan))
        ELSE IF s < numSpins THEN QDiv(canonical[s + 2], QInt(Pow(Tspan, s + 1)))
        ELSE QZero]

\* a conversion that puts a sky vector longer than 1 onto the rim of the unit disk
Canonical2SkyClamped(nX, nY, vn2, hemi, fkdot) ==
    [rc |-> 0,
     doppler |-> [vn |-> << nX, nY,
                            IF gsl_fcmp(vn2, QOne) >= 0 THEN 0
                            ELSE IF hemi = HEMI_SOUTH THEN -1 ELSE 1 >>,
                  fkdot |-> fkdot]]

\* convertCanonical2Doppler, the sky vector of the point with sky components
\* nX, nY: -1 when it is longer than 1
Canonical2Sky(nX, nY, vn2, hemi, fkdot) ==
    IF gsl_fcmp(vn2, QOne) > 0
    THEN [rc |-> -1, doppler |-> [vn |-> << nX, nY, 0 >>, fkdot |-> fkdot]]
    ELSE [rc |-> 0,
          doppler |-> [vn |-> << nX, nY,
                                 IF vn2 = QOne THEN 0
                                 ELSE IF hemi = HEMI_SOUTH THEN -1 ELSE 1 >>,
                       fkdot |-> fkdot]]

\* the REAL8 results of a division by zero: 0 / 0, and x / 0 of the sign of x
NaN == << 0, 0 >>
Infinity(sign) == << sign, 0 >>

\* convertCanonical2Doppler at fkdot[0] = 0, where prefact = 0 and the divisions
\* give NaN or an infinity.  vn2 is infinite if nX and nY are, which is the error
\* "length > 1"; otherwise vn2 is NaN, which gsl_fcmp compares as equal to 1, and
\* vn[2] = sqrt (fabs (NaN)) is NaN, that has no sign: 0 here
Canonical2VnZeroFreq(canonical, hemi, fkdot) ==
    LET nX == IF canonical[1] = QZero THEN NaN
              ELSE Infinity(IF QLt(canonical[1], QZero) THEN 1 ELSE -1)
        nY == IF canonical[2] = QZero THEN NaN
              ELSE Infinity(IF QLt(canonical[2], QZero) THEN 1 ELSE -1)
    IN  [rc |-> IF nX # NaN /\ nY # NaN THEN -1 ELSE 0,
         doppler |-> [vn |-> << nX, nY, 0 >>, fkdot |-> fkdot]]

\* convertCanonical2Doppler, from the spins on: nX = - kX / (2*pi * Rorb * f / c)
Canonical2Vn(canonical, hemi, fkdot) ==
    IF fkdot[0] = QZero THEN Canonical2VnZeroFreq(canonical, hemi, fkdot)
    ELSE
    Canonical2Sky(QDiv(QNeg(canonical[1]), fkdot[0]),
                  QDiv(QNeg(canonical[2]), fkdot[0]),
                  QAdd(SQUARE(QDiv(QNeg(canonical[1]), fkdot[0])),
                       SQUARE(QDiv(QNeg(canonical[2]), fkdot[0]))),
                  hemi, fkdot)

\* convertCanonical2Doppler: back to a sky vector and spins: [rc, doppler]
convertCanonical2Doppler(canonical, hemi, Tspan) ==
    IF hemi # HEMI_NORTH /\ hemi # HEMI_SOUTH
    THEN [rc |-> -1, doppler |-> empty_dopplerParams]
    ELSE IF Size(canonical) - 2 > numSpinsMax
    THEN [rc |-> -1, doppler |-> empty_dopplerParams]
    ELSE Canonical2Vn(canonical, hemi, Canonical2Spins(canonical, Size(canonical) - 2, Tspan))

\* an offset computed with the generator transposed
indexToCanonicalOffsetTransposed(size, index, generator) ==
    LET dim == Size(index)
    IN  IF Size(generator) # dim \/ (\E j \in DOMAIN generator : Size(generator[j]) # dim)
        THEN [rc |-> -1, vec |-> QZeroVector(size)]
        ELSE IF size < dim THEN [rc |-> -1, vec |-> QZeroVector(size)]
        ELSE [rc |-> 0,
              vec |-> [i \in 0 .. size - 1 |->
                         IF i < dim
                         THEN QInt(ISum([j \in 0 .. dim - 1 |-> index[j] * generator[i][j]], dim))
                         ELSE QZero]]

\* indexToCanonicalOffset: lattice-vect = index . generator, written into a vector
\* of `size` elements (size >= dim), the other elements zero
indexToCanonicalOffset(size, index, generator) ==
    LET dim == Size(index)
    IN  IF Size(generator) # dim \/ (\E j \in DOMAIN generator : Size(generator[j]) # dim)
        THEN [rc |-> -1, vec |-> QZeroVector(size)]
        ELSE IF size < dim THEN [rc |-> -1, vec |-> QZeroVector(size)]
        ELSE [rc |-> 0,
              vec |-> [i \in 0 .. size - 1 |->
                         IF i < dim
                         THEN QInt(ISum([j \in 0 .. dim - 1 |-> index[j] * generator[j][i]], dim))
                         ELSE QZero]]

(* ------------------------- boundary of the scan ------------------------- *)
\* spin ranges without their end points
insideSpinsOpen(doppler, boundary) ==
    \A s \in 0 .. numSpinsMax - 1 :
        LET fkdotMax == QAdd(boundary.fkRange.fkdot[s], boundary.fkRange.fkdotBand[s])
            fkdotMin == boundary.fkRange.fkdot[s]
        IN  ~ (gsl_fcmp(doppler.fkdot[s], fkdotMax) >= 0
               \/ gsl_fcmp(doppler.fkdot[s], fkdotMin) <= 0)

\* isDopplerInsideBoundary, the spin ranges
insideSpins(doppler, boundary) ==
    \A s \in 0 .. numSpinsMax - 1 :
        LET fkdotMax == QAdd(boundary.fkRange.fkdot[s], boundary.fkRange.fkdotBand[s])
            fkdotMin == boundary.fkRange.fkdot[s]
        IN  ~ (gsl_fcmp(doppler.fkdot[s], fkdotMax) > 0
               \/ gsl_fcmp(doppler.fkdot[s], fkdotMin) < 0)

\* isDopplerInsideBoundary, from the result insideSky of vect2DInPolygon on
InsideBoundary(insideSky, doppler, boundary) ==
    IF insideSky < 0 THEN -1
    ELSE IF insideSky # 0 /\ VECT_HEMI(doppler.vn) = boundary.hemisphere
            /\ insideSpins(doppler, boundary)
    THEN 1 ELSE 0

\* isDopplerInsideBoundary: 1 = TRUE, 0 = FALSE, -1 = ERROR
isDopplerInsideBoundary(doppler, boundary) ==
    InsideBoundary(vect2DInPolygon(<< vnX(doppler), vnY(doppler) >>, boundary.skyRegion),
                   doppler, boundary)

\* XLALindexToDoppler, from the result of convertCanonical2Doppler on
IndexToDopplerResult(conv) ==
    IF conv.rc # 0 THEN [rc |-> -1, doppler |-> conv.doppler]
    ELSE [rc |-> 0, doppler |-> conv.doppler]

\* XLALindexToDoppler: gsl_vector_add (canonical, scan->latticeOrigin)
CanonicalPoint(offset, scan) ==
    [k \in DOMAIN offset.vec |-> QAdd(offset.vec[k], scan.latticeOrigin[k])]

\* XLALindexToDoppler, from the result of indexToCanonicalOffset on
IndexToDopplerFrom(offset, scan) ==
    IF offset.rc # 0 THEN [rc |-> -1, doppler |-> empty_dopplerParams]
    ELSE IndexToDopplerResult(
             convertCanonical2Doppler(CanonicalPoint(offset, scan),
                                      scan.boundary.hemisphere, scan.Tspan))

\* XLALindexToDoppler: origin + index . generator, converted to Doppler parameters:
\* [rc, doppler]
XLALindexToDoppler(index, scan) ==
    IndexToDopplerFrom(
        indexToCanonicalOffset(Size(scan.latticeOrigin), index, scan.latticeGenerator), scan)

\* isIndexInsideBoundary, from the result of XLALindexToDoppler on
IndexInsideFrom(d, scan) ==
    IF d.rc # 0 THEN -1 ELSE isDopplerInsideBoundary(d.doppler, scan.boundary)

\* isIndexInsideBoundary: 1 = TRUE, 0 = FALSE, -1 = ERROR
isIndexInsideBoundary(index, scan) ==
    IF scan = NULL THEN -1
    ELSE IF scan.state # STATE_READY THEN -1
    ELSE IndexInsideFrom(XLALindexToDoppler(index, scan), scan)

(* --------------------------- lattice stepping --------------------------- *)
\* C truth of an int used as a condition
Truthy(i) == i # 0

\* a stepping rule that walks up whatever the sign of the index
goingUpAlways(index0, aI) == TRUE

\* goingUp of XLALadvanceLatticeIndex: walk up unless the index is negative
goingUp(index0, aI) == ~ (index0[aI] < 0)

\* a loop that walks outwards only and never turns to the negative side of an axis
RECURSIVE AdvanceLoopNoTurn(_, _, _)
AdvanceLoopNoTurn(scan, index0, aI) ==
    IF Truthy(isIndexInsideBoundary(
                  [index0 EXCEPT ![aI] = index0[aI] + (IF goingUp(index0, aI) THEN 1 ELSE -1)],
                  scan))
    THEN [ret |-> 0,
          index |-> [index0 EXCEPT ![aI] = index0[aI] + (IF goingUp(index0, aI) THEN 1 ELSE -1)]]
    ELSE IF aI + 1 < scan.dimSearch
    THEN AdvanceLoopNoTurn(scan, [index0 EXCEPT ![aI] = 0], aI + 1)
    ELSE [ret |-> 1, index |-> scan.index]

\* the do-while loop of XLALadvanceLatticeIndex from axis aI on, index0 being the
\* working copy of the current index: [ret, index] with ret 0 = advanced to index,
\* 1 = no more lattice points
RECURSIVE AdvanceLoop(_, _, _)
AdvanceLoop(scan, index0, aI) ==
    IF Truthy(isIndexInsideBoundary(
                  [index0 EXCEPT ![aI] = index0[aI] + (IF goingUp(index0, aI) THEN 1 ELSE -1)],
                  scan))
    THEN [ret |-> 0,
          index |-> [index0 EXCEPT ![aI] = index0[aI] + (IF goingUp(index0, aI) THEN 1 ELSE -1)]]
    ELSE IF goingUp(index0, aI)
            /\ Truthy(isIndexInsideBoundary([index0 EXCEPT ![aI] = -1], scan))
    THEN [ret |-> 0, index |-> [index0 EXCEPT ![aI] = -1]]
    ELSE IF aI + 1 < scan.dimSearch
    THEN AdvanceLoop(scan, [index0 EXCEPT ![aI] = 0], aI + 1)
    ELSE [ret |-> 1, index |-> scan.index]

\* the trial indices that the do-while loop of XLALadvanceLatticeIndex hands to
\* isIndexInsideBoundary, from axis aI on
RECURSIVE AdvanceTrials(_, _, _)
AdvanceTrials(scan, index0, aI) ==
    LET up == [index0 EXCEPT ![aI] = index0[aI] + (IF goingUp(index0, aI) THEN 1 ELSE -1)]
        down == [index0 EXCEPT ![aI] = -1]
    IN  IF Truthy(isIndexInsideBoundary(up, scan)) THEN {up}
        ELSE IF goingUp(index0, aI) /\ Truthy(isIndexInsideBoundary(down, scan))
        THEN {up, down}
        ELSE (IF goingUp(index0, aI) THEN {up, down} ELSE {up})
             \cup (IF aI + 1 < scan.dimSearch
                   THEN AdvanceTrials(scan, [index0 EXCEPT ![aI] = 0], aI + 1)
                   ELSE {})

\* a set-index that refuses an index outside the boundary
XLALsetInsideLatticeIndex(scan, index) ==
    IF index = NULL \/ scan = NULL THEN [ret |-> -1, scan |-> scan]
    ELSE IF scan.state # STATE_READY \/ Size(index) # scan.dimSearch
    THEN [ret |-> -1, scan |-> scan]
    ELSE IF isIndexInsideBoundary(index, scan) # 1 THEN [ret |-> -1, scan |-> scan]
    ELSE [ret |-> 0, scan |-> [scan EXCEPT !.index = index]]

\* XLALsetCurrentLatticeIndex: [ret, scan]
XLALsetCurrentLatticeIndex(scan, index) ==
    IF index = NULL \/ scan = NULL THEN [ret |-> -1, scan |-> scan]
    ELSE IF scan.state # STATE_READY \/ Size(index) # scan.dimSearch
    THEN [ret |-> -1, scan |-> scan]
    ELSE [ret |-> 0, scan |-> [scan EXCEPT !.index = index]]

\* XLALadvanceLatticeIndex, from the result of XLALsetCurrentLatticeIndex on
AdvanceSet(scan, set) ==
    IF set.ret # 0 THEN [ret |-> -1, scan |-> scan] ELSE [ret |-> 0, scan |-> set.scan]

\* an advance that returns to the origin when it finds no further point
AdvanceFromReset(scan, r) ==
    IF r.ret = 0 THEN AdvanceSet(scan, XLALsetCurrentLatticeIndex(scan, r.index))
    ELSE [ret |-> 1, scan |-> [scan EXCEPT !.index = ZeroIndex(scan.dimSearch)]]

\* XLALadvanceLatticeIndex, from the result r of the loop on
AdvanceFrom(scan, r) ==
    IF r.ret = 0 THEN AdvanceSet(scan, XLALsetCurrentLatticeIndex(scan, r.index))
    ELSE [ret |-> 1, scan |-> scan]

\* XLALadvanceLatticeIndex: [ret, scan]; ret 0 = OK, -1 = ERROR, 1 = no more lattice
\* points.  alloc = FALSE is the failure of the allocation of index0 in
\* XLALgetCurrentLatticeIndex
XLALadvanceLatticeIndex(scan, alloc) ==
    IF scan = NULL THEN [ret |-> -1, scan |-> scan]
    ELSE IF scan.state # STATE_READY THEN [ret |-> -1, scan |-> scan]
    ELSE IF ~alloc THEN [ret |-> -1, scan |-> scan]
    ELSE AdvanceFrom(scan, AdvanceLoop(scan, scan.index, 0))

\* XLALgetCurrentLatticeIndex into a vector allocated here: [ret, index]
XLALgetCurrentLatticeIndex(scan, alloc) ==
    IF scan = NULL THEN [ret |-> -1, index |-> NULL]
    ELSE IF scan.state # STATE_READY THEN [ret |-> -1, index |-> NULL]
    ELSE IF ~alloc THEN [ret |-> -1, index |-> NULL]
    ELSE [ret |-> 0, index |-> scan.index]

\* XLALgetCurrentDopplerPos, from the result of XLALindexToDoppler on
CurrentPosFrom(d) ==
    IF d.rc # 0 THEN [ret |-> -1, pos |-> NULL] ELSE [ret |-> 0, pos |-> d.doppler]

\* a current that does not look at the state of the scan
XLALgetCurrentDopplerPosAnyState(scan) ==
    IF scan = NULL THEN [ret |-> -1, pos |-> NULL]
    ELSE CurrentPosFrom(XLALindexToDoppler(scan.index, scan))

\* XLALgetCurrentDopplerPos: [ret, pos]; pos keeps the ecliptic sky vector, the
\* angles (Alpha, Delta) that vect3DToSkypos computes from it are not modelled
XLALgetCurrentDopplerPos(scan) ==
    IF scan = NULL THEN [ret |-> -1, pos |-> NULL]
    ELSE IF scan.state # STATE_READY THEN [ret |-> -1, pos |-> NULL]
    ELSE CurrentPosFrom(XLALindexToDoppler(scan.index, scan))

(* ---------------------------- initialisation ---------------------------- *)
\* onWhichHemisphere: the loop over the points from point i on
RECURSIVE HemisphereLoop(_, _, _)
HemisphereLoop(skypoints, i, our_hemi) ==
    IF i >= Size(skypoints) THEN our_hemi
    ELSE
      LET this_hemi == VECT_HEMI(skypoints[i])
          hemi == IF our_hemi = HEMI_BOTH /\ this_hemi # HEMI_BOTH THEN this_hemi ELSE our_hemi
      IN  IF this_hemi # HEMI_BOTH /\ this_hemi # hemi THEN HEMI_BOTH
          ELSE HemisphereLoop(skypoints, i + 1, hemi)

\* a hemisphere test that looks at the first point only
onWhichHemisphereOfFirst(skypoints) ==
    IF Size(skypoints) = 0 THEN 0 ELSE VECT_HEMI(skypoints[0])

\* onWhichHemisphere: HEMI_BOTH unless all points with nZ # 0 are on one hemisphere
onWhichHemisphere(skypoints) ==
    IF Size(skypoints) = 0 THEN 0 ELSE HemisphereLoop(skypoints, 0, HEMI_BOTH)

\* findCenterOfMass: the mean of the points, not renormalised.  The points it is
\* called with have third components of one sign (or zero), which is the sign of
\* their mean
findCenterOfMass(points) ==
    LET N == Size(points)
        zs == {points[i][3] : i \in DOMAIN points}
    IN  << QMul(QSum([i \in DOMAIN points |-> points[i][1]], N), Q(1, N)),
           QMul(QSum([i \in DOMAIN points |-> points[i][2]], N), Q(1, N)),
           IF 1 \in zs /\ -1 \notin zs THEN 1 ELSE IF -1 \in zs /\ 1 \notin zs THEN -1 ELSE 0 >>

\* the scan structure as LALCalloc returns it
emptyScan ==
    [state |-> STATE_IDLE, Tspan |-> 0, dimSearch |-> 0,
     boundary |-> [skyRegion |-> [length |-> 0, data |-> NULL],
                   hemisphere |-> HEMI_BOTH,
                   fkRange |-> [fkdot |-> [s \in 0 .. numSpinsMax - 1 |-> QZero],
                                fkdotBand |-> [s \in 0 .. numSpinsMax - 1 |-> QZero]]],
     latticeOrigin |-> NULL, latticeGenerator |-> NULL, index |-> NULL]

\* a count of the spins that takes every order for active
ActiveSpinsAll(fkdotBand, numSpins) == numSpins

\* number of spins to compute the metric for: the while loop of setupSearchRegion
RECURSIVE ActiveSpins(_, _)
ActiveSpins(fkdotBand, numSpins) ==
    IF numSpins > 1 /\ fkdotBand[numSpins - 1] = QZero
    THEN ActiveSpins(fkdotBand, numSpins - 1)
    ELSE numSpins

\* setupSearchRegion: the middle of the search region
midPoint(searchRegion) ==
    [vn |-> findCenterOfMass(searchRegion.points3D),
     fkdot |-> [i \in 0 .. numSpinsMax - 1 |->
                  QAdd(searchRegion.fkdot[i], QMul(Q(1, 2), searchRegion.fkdotBand[i]))]]

\* setupSearchRegion: the scan with the sky polygon and the spin range stored
SetupBoundary(scan, searchRegion) ==
    [scan EXCEPT
       !.boundary.skyRegion =
           [length |-> Size(searchRegion.points3D),
            data |-> [i \in DOMAIN searchRegion.points3D |->
                        << searchRegion.points3D[i][1], searchRegion.points3D[i][2] >>]],
       !.boundary.fkRange =
           [fkdot |-> searchRegion.fkdot, fkdotBand |-> searchRegion.fkdotBand]]

\* setupSearchRegion, from the result `origin` of convertDoppler2Canonical on;
\* scan has the boundary stored
SetupOrigin(scan, heap, searchRegion, origin) ==
    IF origin.rc # 0
    THEN [code |-> "DOPPLERSCANH_EXLAL", scan |-> scan, heap |-> heap]
    ELSE [code |-> "OK",
          scan |-> [scan EXCEPT !.latticeOrigin = origin.vec,
                                !.dimSearch = 2 + ActiveSpins(searchRegion.fkdotBand,
                                                              numSpinsMax)],
          heap |-> heap \cup {"latticeOrigin"}]

\* setupSearchRegion, from the hemisphere of the sky points on; scan has the
\* hemisphere stored
SetupSky(scan, heap, searchRegion, fail) ==
    IF scan.boundary.hemisphere = HEMI_BOTH
    THEN [code |-> "DOPPLERSCANH_EINPUT", scan |-> scan, heap |-> heap]
    ELSE IF fail = << "LALCalloc(skyRegion.data)", 0 >>
    THEN [code |-> "DOPPLERSCANH_EMEM", scan |-> scan, heap |-> heap]
    ELSE SetupOrigin(SetupBoundary(scan, searchRegion), heap \cup {"skyRegion.data"},
                     searchRegion,
                     convertDoppler2Canonical(scan.latticeOrigin, midPoint(searchRegion),
                                              scan.Tspan,
                                              fail # << "gsl_vector_calloc(latticeOrigin)", 0 >>))

\* setupSearchRegion on the scan structure `scan`: [code, scan, heap].
\* searchRegion.points3D is what skyRegionString2vect3D returns for the sky-region
\* string; fail = << call, test >> names the call that fails, if any (test: which
\* of the three stepping tests of the initialisation, 0 outside them)
setupSearchRegion(scan, heap, searchRegion, fail) ==
    IF fail = << "ParseSkyRegionString", 0 >>
    THEN [code |-> "ParseSkyRegionString", scan |-> scan, heap |-> heap]
    ELSE IF fail \in {<< "LALCalloc(points3D)", 0 >>, << "LALCalloc(points3D->data)", 0 >>}
    THEN [code |-> "DOPPLERSCANH_EMEM", scan |-> scan, heap |-> heap]
    ELSE SetupSky([scan EXCEPT !.boundary.hemisphere = onWhichHemisphere(searchRegion.points3D)],
                  heap, searchRegion, fail)

\* a destroy that forgets the index vector
FreeDopplerLatticeScanButIndex(handle, heap) ==
    IF handle = NULL
    THEN [code |-> "DOPPLERSCANH_ENONULL", handle |-> handle, heap |-> heap]
    ELSE IF handle.state = STATE_IDLE
    THEN [code |-> "DOPPLERSCANH_EINPUT", handle |-> handle, heap |-> heap]
    ELSE [code |-> "OK", handle |-> NULL,
          heap |-> heap \ {"scan", "skyRegion.data", "latticeOrigin", "latticeGenerator"}]

\* FreeDopplerLatticeScan on the handle *scan: [code, handle, heap]
FreeDopplerLatticeScan(handle, heap) ==
    IF handle = NULL
    THEN [code |-> "DOPPLERSCANH_ENONULL", handle |-> handle, heap |-> heap]
    ELSE IF handle.state = STATE_IDLE
    THEN [code |-> "DOPPLERSCANH_EINPUT", handle |-> handle, heap |-> heap]
    ELSE [code |-> "OK", handle |-> NULL,
          heap |-> heap \ ({"scan"}
                           \cup (IF handle.boundary.skyRegion.data # NULL
                                 THEN {"skyRegion.data"} ELSE {})
                           \cup (IF handle.latticeOrigin # NULL THEN {"latticeOrigin"} ELSE {})
                           \cup (IF handle.latticeGenerator # NULL
                                 THEN {"latticeGenerator"} ELSE {})
                           \cup (IF handle.index # NULL THEN {"index"} ELSE {}))]

\* the index vector that stepping test k gets from XLALgetCurrentLatticeIndex
DebugIndex(k) == IF k = 1 THEN "index(test 1)" ELSE IF k = 2 THEN "index(test 2)" ELSE "index(test 3)"

\* what InitDopplerLatticeScan returns when it aborts with the handle set
InitAbort(ret, heap, path) ==
    [code |-> "DOPPLERSCANH_EXLAL", handle |-> ret, heap |-> heap, path |-> path]

\* the three stepping tests at the end of InitDopplerLatticeScan, from test k on:
\* [code, handle, heap, path]; path is the sequence of the indices that were current
RECURSIVE DebugAdvance(_, _, _, _, _)

\* stepping test k, from the result res of XLALadvanceLatticeIndex on
DebugAdvanced(ret, res, heap, path, k, fail) ==
    IF res.ret < 0 THEN InitAbort(ret, heap, path)
    ELSE IF XLALgetCurrentDopplerPos(res.scan).ret # 0
            \/ XLALgetCurrentLatticeIndex(res.scan,
                                          fail # << "XLALgetCurrentLatticeIndex", k >>).ret # 0
    THEN InitAbort(res.scan, heap, IF res.ret = 0 THEN Append(path, res.scan.index) ELSE path)
    ELSE DebugAdvance(res.scan, heap \cup {DebugIndex(k)},
                      IF res.ret = 0 THEN Append(path, res.scan.index) ELSE path,
                      k + 1, fail)

DebugAdvance(ret, heap, path, k, fail) ==
    IF k > 3 THEN [code |-> "OK", handle |-> ret, heap |-> heap, path |-> path]
    ELSE DebugAdvanced(ret,
                       XLALadvanceLatticeIndex(ret, fail # << "XLALadvanceLatticeIndex", k >>),
                       heap, path, k, fail)

\* the debug tests of InitDopplerLatticeScan, from the result `origin` of
\* convertCanonical2Doppler on the lattice origin on; ret is the scan returned
DebugTests(ret, origin, heap, fail) ==
    IF origin.rc # 0 THEN InitAbort(ret, heap, << ret.index >>)
    ELSE IF convertDoppler2Canonical(NULL, origin.doppler, ret.Tspan,
                                     fail # << "gsl_vector_calloc(origin2)", 0 >>).rc # 0
    THEN InitAbort(ret, heap, << ret.index >>)
    ELSE IF XLALgetCurrentDopplerPos(ret).ret # 0
    THEN InitAbort(ret, heap \cup {"origin2"}, << ret.index >>)
    ELSE DebugAdvance(ret, heap \cup {"origin2"}, << ret.index >>, 1, fail)

\* what InitDopplerLatticeScan returns when it aborts after the call
\* FreeDopplerLatticeScan ( status->statusPtr, scan ), whose result is free
InitFreed(code, free) ==
    [code |-> code, handle |-> free.handle, heap |-> free.heap, path |-> << >>]

\* InitDopplerLatticeScan, from the result `setup` of setupSearchRegion on
InitFrom(handle, setup, generator, fail) ==
    IF setup.code # "OK"
    THEN [code |-> setup.code, handle |-> handle, heap |-> setup.heap, path |-> << >>]
    ELSE IF fail = << "gsl_matrix_calloc(gij)", 0 >>
    THEN InitFreed("DOPPLERSCANH_EMEM", FreeDopplerLatticeScan(handle, setup.heap))
    ELSE IF fail = << "XLALFlatMetricCW", 0 >>
    THEN InitFreed("DOPPLERSCANH_EXLAL", FreeDopplerLatticeScan(handle, setup.heap))
    ELSE IF fail = << "XLALFindCoveringGenerator", 0 >>
    THEN InitFreed("DOPPLERSCANH_EXLAL", FreeDopplerLatticeScan(handle, setup.heap))
    ELSE IF fail = << "gsl_vector_int_calloc(index)", 0 >>
    THEN InitFreed("DOPPLERSCANH_EMEM",
                   FreeDopplerLatticeScan(handle, setup.heap \cup {"latticeGenerator"}))
    ELSE DebugTests([setup.scan EXCEPT !.latticeGenerator = generator,
                                       !.index = ZeroIndex(setup.scan.dimSearch),
                                       !.state = STATE_READY],
                    convertCanonical2Doppler(setup.scan.latticeOrigin,
                                             setup.scan.boundary.hemisphere, setup.scan.Tspan),
                    setup.heap \cup {"latticeGenerator", "index"}, fail)

\* InitDopplerLatticeScan with *scan = handle: [code, handle, heap, path].  code is the
\* status code of the innermost function that failed (a failure of setupSearchRegion
\* comes back through TRY as a recursive error around it).  generator
\* is what XLALFindCoveringGenerator returns for the metric of XLALFlatMetricCW.
\* The metric gij is freed on every path that allocates it
InitDopplerLatticeScan(handle, heap, init, generator, fail) ==
    IF handle # NULL
    THEN [code |-> "DOPPLERSCANH_ENONULL", handle |-> handle, heap |-> heap, path |-> << >>]
    ELSE IF fail = << "LALCalloc(ret)", 0 >>
    THEN [code |-> "DOPPLERSCANH_EMEM", handle |-> handle, heap |-> heap, path |-> << >>]
    ELSE InitFrom(handle,
                  setupSearchRegion([emptyScan EXCEPT !.Tspan = init.Tspan],
                                    heap \cup {"scan"}, init.searchRegion, fail),
                  generator, fail)

(* --------- ComplexAM.c: complex antenna-pattern coefficients ------------ *)
\* a COMPLEX8 or COMPLEX16 number
Cmplx(re, im) == [re |-> re, im |-> im]

\* XLALCreateCOMPLEX8Vector ( length ); its data are written before they are read
COMPLEX8Vector(length) ==
    [length |-> length, data |-> [i \in 0 .. length - 1 |-> Cmplx(0, 0)]]

\* the allocated blocks of a MultiCmplxAMCoeffs
RetBlock == << "ret" >>
DataBlock == << "ret->data" >>
EntryBlock(X) == << "ret->data[X]", X >>
ABlock(X) == << "ret->data[X]->a", X >>
BBlock(X) == << "ret->data[X]->b", X >>

\* the outcome of a write or read through a null pointer: the process is killed
SIGSEGV == "SIGSEGV"

\* a CmplxAMCoeffs as LALCalloc returns it
emptyCmplxAMCoeffs ==
    [a |-> NULL, b |-> NULL, A |-> QZero, B |-> QZero, C |-> QZero, E |-> QZero, D |-> QZero]

\* LALGetCmplxAMCoeffs, the loop over the timestamps and the sums A, B, C, E, D;
\* SumSteps is the sum over the timestamps of f(a_i, b_i).
\* DetectorStates.ab[i] are the coefficients ai, bi that the detector tensor, alpha
\* and delta give at timestamp i
CmplxAMCoeffsOf(coeffs, DetectorStates) ==
    LET numSteps == DetectorStates.length
        ab == DetectorStates.ab
        norm == Q(2, numSteps)
        SumSteps(xy, n, f(_, _)) == ISum([i \in 0 .. n - 1 |-> f(xy[i].a, xy[i].b)], n)
        A == QMul(norm, QInt(SumSteps(ab, numSteps,
                                      LAMBDA ai, bi : ai.re * ai.re + ai.im * ai.im)))
        B == QMul(norm, QInt(SumSteps(ab, numSteps,
                                      LAMBDA ai, bi : bi.re * bi.re + bi.im * bi.im)))
        C == QMul(norm, QInt(SumSteps(ab, numSteps,
                                      LAMBDA ai, bi : ai.re * bi.re + ai.im * bi.im)))
        E == QMul(norm, QInt(SumSteps(ab, numSteps,
                                      LAMBDA ai, bi : ai.re * bi.im - ai.im * bi.re)))
    IN  [a |-> [coeffs.a EXCEPT !.data = [i \in 0 .. numSteps - 1 |-> ab[i].a]],
         b |-> [coeffs.b EXCEPT !.data = [i \in 0 .. numSteps - 1 |-> ab[i].b]],
         A |-> A, B |-> B, C |-> C, E |-> E,
         D |-> QSub(QSub(QMul(A, B), QMul(C, C)), QMul(E, E))]

\* LALGetCmplxAMCoeffs: [code, coeffs].  assertions: the ASSERTs are compiled in (no
\* NDEBUG).  DetectorStates.tensorOK = FALSE: XLALgetCmplxLISADetectorTensor fails,
\* at the first timestamp
LALGetCmplxAMCoeffs(coeffs, DetectorStates, assertions) ==
    IF assertions /\ (coeffs.a = NULL \/ coeffs.b = NULL)
    THEN [code |-> "COMPLEXAMC_ENULL", coeffs |-> coeffs]
    ELSE IF assertions /\ (coeffs.a.length # DetectorStates.length
                           \/ coeffs.b.length # DetectorStates.length)
    THEN [code |-> "COMPLEXAMC_EINPUT", coeffs |-> coeffs]
    ELSE IF assertions /\ ~DetectorStates.prefixZ
    THEN [code |-> "COMPLEXAMC_ERAALISA", coeffs |-> coeffs]
    ELSE IF DetectorStates.length > 0 /\ ~DetectorStates.tensorOK
    THEN [code |-> "COMPLEXAMC_EXLAL", coeffs |-> coeffs]
    ELSE IF DetectorStates.length > 0 /\ (coeffs.a = NULL \/ coeffs.b = NULL)
    THEN [code |-> SIGSEGV, coeffs |-> coeffs]
    ELSE [code |-> "OK", coeffs |-> CmplxAMCoeffsOf(coeffs, DetectorStates)]

\* XLALDestroyMultiCmplxAMCoeffs: the blocks that are left of heap
XLALDestroyMultiCmplxAMCoeffs(multiAMcoef, heap) ==
    IF multiAMcoef = NULL THEN heap
    ELSE heap \ ({RetBlock}
                 \cup (IF multiAMcoef.data = NULL THEN {}
                       ELSE {DataBlock}
                            \cup UNION { IF multiAMcoef.data[X] = NULL THEN {}
                                         ELSE {EntryBlock(X)}
                                              \cup (IF multiAMcoef.data[X].a # NULL
                                                    THEN {ABlock(X)} ELSE {})
                                              \cup (IF multiAMcoef.data[X].b # NULL
                                                    THEN {BBlock(X)} ELSE {}) :
                                         X \in 0 .. multiAMcoef.length - 1 }))

\* LALGetMultiCmplxAMCoeffs, the loop over the detectors from detector X on:
\* [code, ret, heap], code "OK" for success, "failed" for goto failed.
\* fail = << call, X >> names the allocation that fails, if any
RECURSIVE GetMultiLoop(_, _, _, _, _, _)

\* the loop from the result r of LALGetCmplxAMCoeffs for detector X on
GetMultiComputed(ret, heap, multiDetStates, X, fail, assertions, r) ==
    IF r.code = SIGSEGV
    THEN [code |-> SIGSEGV, ret |-> ret, heap |-> heap]
    ELSE IF r.code # "OK"
    THEN [code |-> "failed", ret |-> [ret EXCEPT !.data[X] = r.coeffs], heap |-> heap]
    ELSE GetMultiLoop([ret EXCEPT !.data[X] = r.coeffs], heap, multiDetStates, X + 1,
                      fail, assertions)

\* the loop from the entry amcoeX with its vectors a and b on
GetMultiEntry(ret, heap, multiDetStates, X, fail, assertions, amcoeX) ==
    IF amcoeX.b = NULL
    THEN [code |-> "failed", ret |-> [ret EXCEPT !.data[X] = amcoeX], heap |-> heap]
    ELSE GetMultiComputed(ret, heap, multiDetStates, X, fail, assertions,
                          LALGetCmplxAMCoeffs(amcoeX, multiDetStates[X], assertions))

GetMultiLoop(ret, heap, multiDetStates, X, fail, assertions) ==
    IF X >= ret.length THEN [code |-> "OK", ret |-> ret, heap |-> heap]
    ELSE IF fail = << "LALCalloc(ret->data[X])", X >>
    THEN [code |-> SIGSEGV, ret |-> ret, heap |-> heap]
    ELSE GetMultiEntry(
             ret,
             heap \cup {EntryBlock(X)}
                  \cup (IF fail = << "XLALCreateCOMPLEX8Vector(a)", X >> THEN {} ELSE {ABlock(X)})
                  \cup (IF fail = << "XLALCreateCOMPLEX8Vector(b)", X >> THEN {} ELSE {BBlock(X)}),
             multiDetStates, X, fail, assertions,
             [emptyCmplxAMCoeffs EXCEPT
                !.a = IF fail = << "XLALCreateCOMPLEX8Vector(a)", X >> THEN NULL
                      ELSE COMPLEX8Vector(multiDetStates[X].length),
                !.b = IF fail = << "XLALCreateCOMPLEX8Vector(b)", X >> THEN NULL
                      ELSE COMPLEX8Vector(multiDetStates[X].length)])

\* the structure ret with its array data, as the two LALCalloc return them
emptyMultiCmplxAMCoeffs(numDetectors) ==
    [length |-> numDetectors,
     data |-> [X \in 0 .. numDetectors - 1 |-> NULL],
     Mmunu |-> [Ad |-> 0, Bd |-> 0, Cd |-> 0, Ed |-> 0, Sinv_Tsft |-> 0]]

\* LALGetMultiCmplxAMCoeffs, from the result r of the loop on
GetMultiFrom(multiAMcoef, r) ==
    IF r.code = "OK" THEN [code |-> "OK", multiAMcoef |-> r.ret, heap |-> r.heap]
    ELSE IF r.code = SIGSEGV
    THEN [code |-> SIGSEGV, multiAMcoef |-> multiAMcoef, heap |-> r.heap]
    ELSE [code |-> "-1", multiAMcoef |-> multiAMcoef,
          heap |-> XLALDestroyMultiCmplxAMCoeffs(r.ret, r.heap)]

\* LALGetMultiCmplxAMCoeffs with *multiAMcoef = multiAMcoef: [code, multiAMcoef, heap]
LALGetMultiCmplxAMCoeffs(multiAMcoef, heap, multiDetStates, fail, assertions) ==
    IF assertions /\ (multiDetStates = NULL \/ Size(multiDetStates) = 0)
    THEN [code |-> "COMPLEXAMC_ENULL", multiAMcoef |-> multiAMcoef, heap |-> heap]
    ELSE IF assertions /\ multiAMcoef # NULL
    THEN [code |-> "COMPLEXAMC_ENONULL", multiAMcoef |-> multiAMcoef, heap |-> heap]
    ELSE IF fail = << "LALCalloc(ret)", 0 >>
    THEN [code |-> "COMPLEXAMC_EMEM", multiAMcoef |-> multiAMcoef, heap |-> heap]
    ELSE IF fail = << "LALCalloc(ret->data)", 0 >>
    THEN [code |-> "COMPLEXAMC_EMEM", multiAMcoef |-> multiAMcoef, heap |-> heap]
    ELSE GetMultiFrom(multiAMcoef,
                      GetMultiLoop(emptyMultiCmplxAMCoeffs(Size(multiDetStates)),
                                   heap \cup {RetBlock, DataBlock}, multiDetStates, 0,
                                   fail, assertions))

\* sqrt ( w ) for the weights of the model, which are squares
Sqrt(w) == CHOOSE r \in 0 .. w : r * r = w

\* XLALWeighMultiCmplxAMCoeffs: the noise-weighted coefficient Sqwi * c
Weighted(Sqwi, c) == Cmplx(Sqwi * c.re, Sqwi * c.im)

\* XLALWeighMultiCmplxAMCoeffs: the sums Ad, Bd, Cd, Ed with the terms of ahat and
\* bhat added
SumABCE(sums, ahat, bhat) ==
    [Ad |-> sums.Ad + ahat.re * ahat.re + ahat.im * ahat.im,
     Bd |-> sums.Bd + bhat.re * bhat.re + bhat.im * bhat.im,
     Cd |-> sums.Cd + ahat.re * bhat.re + ahat.im * bhat.im,
     Ed |-> sums.Ed + ahat.re * bhat.im - ahat.im * bhat.re]

\* the loop over the timestamps alpha < numSteps of one detector with weights:
\* [amcoeX, sums] with a(t), b(t) replaced by the weighted ones
RECURSIVE WeighSteps(_, _, _, _)
WeighSteps(amcoeX, weightsX, sums, numSteps) ==
    IF numSteps = 0 THEN [amcoeX |-> amcoeX, sums |-> sums]
    ELSE
      LET r == WeighSteps(amcoeX, weightsX, sums, numSteps - 1)
          alpha == numSteps - 1
          ahat == Weighted(Sqrt(weightsX.data[alpha]), amcoeX.a.data[alpha])
          bhat == Weighted(Sqrt(weightsX.data[alpha]), amcoeX.b.data[alpha])
      IN  [amcoeX |-> [r.amcoeX EXCEPT !.a.data[alpha] = ahat, !.b.data[alpha] = bhat],
           sums |-> SumABCE(r.sums, ahat, bhat)]

\* sums that take in the last timestamp of the detector only
SumStepsLastOnly(amcoeX, sums, numSteps) ==
    IF numSteps = 0 THEN sums
    ELSE SumABCE(sums, amcoeX.a.data[numSteps - 1], amcoeX.b.data[numSteps - 1])

\* the loop over the timestamps alpha < numSteps of one detector without weights:
\* the sums
RECURSIVE SumSteps16(_, _, _)
SumSteps16(amcoeX, sums, numSteps) ==
    IF numSteps = 0 THEN sums
    ELSE SumABCE(SumSteps16(amcoeX, sums, numSteps - 1),
                 amcoeX.a.data[numSteps - 1], amcoeX.b.data[numSteps - 1])

\* the loop over the detectors with weights, from detector X on:
\* [ret, multiAMcoef, sums]; ret -1 is XLAL_ERROR ( XLAL_EINVAL )
RECURSIVE WeighLoop(_, _, _, _)
WeighLoop(multiAMcoef, multiWeights, sums, X) ==
    IF X >= multiAMcoef.length
    THEN [ret |-> 0,
          multiAMcoef |-> [multiAMcoef EXCEPT !.Mmunu.Sinv_Tsft = multiWeights.Sinv_Tsft],
          sums |-> sums]
    ELSE IF multiWeights.data[X].length # multiAMcoef.data[X].a.length
    THEN [ret |-> -1, multiAMcoef |-> multiAMcoef, sums |-> sums]
    ELSE
      LET r == WeighSteps(multiAMcoef.data[X], multiWeights.data[X], sums,
                          multiAMcoef.data[X].a.length)
      IN  WeighLoop([multiAMcoef EXCEPT !.data[X] = r.amcoeX], multiWeights, r.sums, X + 1)

\* the loop over the detectors without weights, from detector X on: the sums
RECURSIVE SumLoop(_, _, _)
SumLoop(multiAMcoef, sums, X) ==
    IF X >= multiAMcoef.length THEN sums
    ELSE SumLoop(multiAMcoef,
                 SumSteps16(multiAMcoef.data[X], sums, multiAMcoef.data[X].a.length), X + 1)

\* XLALWeighMultiCmplxAMCoeffs, from the result r of the loop over the detectors on
WeighFrom(r) ==
    IF r.ret # 0 THEN [ret |-> -1, multiAMcoef |-> r.multiAMcoef]
    ELSE [ret |-> 0,
          multiAMcoef |-> [r.multiAMcoef EXCEPT !.Mmunu.Ad = r.sums.Ad, !.Mmunu.Bd = r.sums.Bd,
                                                !.Mmunu.Cd = r.sums.Cd, !.Mmunu.Ed = r.sums.Ed]]

\* XLALWeighMultiCmplxAMCoeffs: [ret, multiAMcoef], ret 0 = XLAL_SUCCESS, -1 = error
XLALWeighMultiCmplxAMCoeffs(multiAMcoef, multiWeights) ==
    IF multiAMcoef = NULL THEN [ret |-> -1, multiAMcoef |-> multiAMcoef]
    ELSE IF multiWeights # NULL /\ multiWeights.length # multiAMcoef.length
    THEN [ret |-> -1, multiAMcoef |-> multiAMcoef]
    ELSE IF multiWeights # NULL
    THEN WeighFrom(WeighLoop(multiAMcoef, multiWeights,
                             [Ad |-> 0, Bd |-> 0, Cd |-> 0, Ed |-> 0], 0))
    ELSE WeighFrom([ret |-> 0, multiAMcoef |-> multiAMcoef,
                    sums |-> SumLoop(multiAMcoef, [Ad |-> 0, Bd |-> 0, Cd |-> 0, Ed |-> 0], 0)])

(* -------------------------------- inputs -------------------------------- *)
\* a sky direction on the grid: << nX, nY, sign of nZ >>
Pt(x, y, z) == << Q(x, SkyScale), Q(y, SkyScale), z >>
\* a C array from a sequence
Array(seq) == [i \in 0 .. Len(seq) - 1 |-> seq[i + 1]]
Spins(seq) == [s \in 0 .. numSpinsMax - 1 |-> QInt(seq[s + 1])]

\* the sky regions: what skyRegionString2vect3D makes of the sky-region strings
OnePoint == Array(<< Pt(1, 1, -1) >>)
\* a single point at nX = 5/6, near the rim of the sky disk
OnePointEdge == Array(<< Pt(SkyScale - 1, 0, 1) >>)
Square == Array(<< Pt(-2, -2, 1), Pt(2, -2, 1), Pt(2, 2, 1), Pt(-2, 2, 1) >>)
Dart == Array(<< Pt(0, 0, 1), Pt(4, 0, 1), Pt(4, 4, 1), Pt(3, 1, 1) >>)
TwoHemispheres == Array(<< Pt(1, 1, 1), Pt(2, 1, -1), Pt(1, 2, 1) >>)
TwoPoints == Array(<< Pt(0, 0, 1), Pt(2, 0, 1) >>)
NearEdge == Array(<< Pt(3, -2, 1), Pt(5, -2, 1), Pt(5, 2, 1), Pt(3, 2, 1) >>)

\* vertex k of a polygon whose third component has the sign z; a vertex with z = 0
\* lies on the unit circle
Vertex(k, z) ==
    IF z = 0 THEN (IF k % 2 = 0 THEN Pt(SkyScale, 0, 0) ELSE Pt(0, SkyScale, 0))
    ELSE Pt(1 + (k % 2), 1 + (k \div 2), z)

\* the sky regions of 3 .. MaxVertices vertices that have a vertex on the northern
\* and a vertex on the southern hemisphere
MixedPolygons ==
    { Array([k \in 1 .. Len(zs) |-> Vertex(k - 1, zs[k])]) :
        zs \in { z \in UNION { [1 .. n -> {-1, 0, 1}] : n \in 3 .. MaxVertices } :
                   (\E k \in DOMAIN z : z[k] = 1) /\ (\E k \in DOMAIN z : z[k] = -1) } }

\* the spin ranges: lower bounds fkdot and widths fkdotBand
NoBand == [fkdot |-> Spins(<< 12, 0, 0, 0 >>), fkdotBand |-> Spins(<< 0, 0, 0, 0 >>)]
FreqBand == [fkdot |-> Spins(<< 12, 0, 0, 0 >>), fkdotBand |-> Spins(<< 1, 0, 0, 0 >>)]
SpindownBand == [fkdot |-> Spins(<< 12, -1, 0, 0 >>), fkdotBand |-> Spins(<< 0, 2, 0, 0 >>)]

Matrix(rows) == Array([j \in 1 .. Len(rows) |-> Array(rows[j])])

\* generating matrices; the rows are lattice vectors {w0, kX, kY, w1, ...}.  At
\* fkdot[0] = 12 a step of 2 in kX or kY is a step of 1 / 6 in nX or nY
Straight == Matrix(<< << 0, 2, 0 >>, << 0, 0, 2 >>, << 1, 0, 0 >> >>)
Sheared == Matrix(<< << 0, 2, 0 >>, << 0, 6, 2 >>, << 1, 0, 0 >> >>)
LongSecond == Matrix(<< << 0, 0, 2 >>, << 0, 6, 0 >>, << 1, 0, 0 >> >>)
LongFirst == Matrix(<< << 0, 6, 0 >>, << 0, 0, 2 >>, << 1, 0, 0 >> >>)
\* a first lattice vector with a frequency component
Mixing == Matrix(<< << 1, 2, 0 >>, << 0, 0, 2 >>, << 1, 0, 0 >> >>)
Straight4 == Matrix(<< << 0, 2, 0, 0 >>, << 0, 0, 2, 0 >>, << 1, 0, 0, 0 >>, << 0, 0, 0, 4 >> >>)

\* scan init parameters, with the generating matrix that XLALFindCoveringGenerator
\* returns for them
Scenario(Tspan, points3D, range, generator) ==
    [init |-> [Tspan |-> Tspan,
               searchRegion |-> [points3D |-> points3D, fkdot |-> range.fkdot,
                                 fkdotBand |-> range.fkdotBand]],
     generator |-> generator]

Scenarios ==
    { Scenario(2, OnePoint, NoBand, Straight),
      Scenario(2, OnePoint, SpindownBand, Straight4),
      Scenario(2, Square, NoBand, Straight),
      Scenario(2, Square, NoBand, Sheared),
      Scenario(2, Square, FreqBand, Straight),
      Scenario(2, Dart, NoBand, Straight),
      Scenario(2, TwoHemispheres, NoBand, Straight),
      Scenario(2, TwoPoints, NoBand, Straight),
      Scenario(2, NearEdge, NoBand, LongSecond),
      Scenario(2, NearEdge, NoBand, LongFirst),
      Scenario(2, TwoPoints, NoBand, Mixing),
      Scenario(2, OnePointEdge, NoBand, LongFirst) }
    \cup { Scenario(2, p, NoBand, Straight) : p \in MixedPolygons }

\* the calls of InitDopplerLatticeScan that can fail, each with the stepping test
\* it is made in
InitFailures ==
    { << c, 0 >> : c \in { "none", "LALCalloc(ret)", "ParseSkyRegionString",
                           "LALCalloc(points3D)", "LALCalloc(points3D->data)",
                           "LALCalloc(skyRegion.data)", "gsl_vector_calloc(latticeOrigin)",
                           "gsl_matrix_calloc(gij)", "XLALFlatMetricCW",
                           "XLALFindCoveringGenerator", "gsl_vector_int_calloc(index)",
                           "gsl_vector_calloc(origin2)" } }
    \cup { << c, k >> : c \in {"XLALadvanceLatticeIndex", "XLALgetCurrentLatticeIndex"},
                        k \in 1 .. 3 }

\* the index vectors a caller sets
SetIndexInputs(dim) ==
    { ZeroIndex(dim), [ZeroIndex(dim) EXCEPT ![0] = 1], [ZeroIndex(dim) EXCEPT ![1] = -1],
      [ZeroIndex(dim) EXCEPT ![0] = 2, ![1] = 2], ZeroIndex(dim + 1), NULL }

InCap(index) == \A k \in DOMAIN index : index[k] \in -MaxIndex .. MaxIndex

\* a DetectorStateSeries of a LISA channel (prefix 'Z') with n timestamps; ab[i] are
\* the coefficients a, b that the detector tensor gives at timestamp i
DetectorSeries(n, shift) ==
    [length |-> n, prefixZ |-> TRUE, tensorOK |-> TRUE,
     ab |-> [i \in 0 .. n - 1 |->
               IF (i + shift) % 2 = 0 THEN [a |-> Cmplx(1, 0), b |-> Cmplx(0, 1)]
               ELSE [a |-> Cmplx(1, 2), b |-> Cmplx(-1, 1)]]]

\* the detector series: of LISA channels, one whose detector tensor cannot be
\* computed, one of a detector that is not LISA
DetectorStateSeries ==
    { DetectorSeries(n, shift) : n \in 1 .. MaxSteps, shift \in {0, 1} }
    \cup { [DetectorSeries(1, 0) EXCEPT !.tensorOK = FALSE],
           [DetectorSeries(1, 0) EXCEPT !.prefixZ = FALSE] }

MultiDetectorStates ==
    UNION { [0 .. n - 1 -> DetectorStateSeries] : n \in 1 .. MaxDetectors }

\* the allocations of LALGetMultiCmplxAMCoeffs that can fail, each with its detector
AMFailures ==
    { << c, 0 >> : c \in {"none", "LALCalloc(ret)", "LALCalloc(ret->data)"} }
    \cup { << c, X >> : c \in { "LALCalloc(ret->data[X])", "XLALCreateCOMPLEX8Vector(a)",
                               "XLALCreateCOMPLEX8Vector(b)" },
                        X \in 0 .. MaxDetectors - 1 }

\* a REAL8Vector of n weights, w0 first and w after it
WeightVector(n, w0, w) == [length |-> n, data |-> [alpha \in 0 .. n - 1 |-> IF alpha = 0 THEN w0 ELSE w]]

\* MultiNoiseWeights that fit the coefficients
WeightsFor(multiAMcoef, w0, w) ==
    [length |-> multiAMcoef.length,
     data |-> [X \in 0 .. multiAMcoef.length - 1 |->
                 WeightVector(multiAMcoef.data[X].a.length, w0, w)],
     Sinv_Tsft |-> 3]

\* the weights a caller passes: none, fitting ones, ones with a detector more, ones
\* with a weight more for the last detector
WeightInputs(multiAMcoef) ==
    IF multiAMcoef = NULL THEN {NULL}
    ELSE { NULL, WeightsFor(multiAMcoef, 1, 1), WeightsFor(multiAMcoef, 4, 4),
           WeightsFor(multiAMcoef, 4, 1),
           [length |-> multiAMcoef.length + 1,
            data |-> [X \in 0 .. multiAMcoef.length |-> WeightVector(1, 4, 4)],
            Sinv_Tsft |-> 3],
           [WeightsFor(multiAMcoef, 4, 4) EXCEPT
              !.data[multiAMcoef.length - 1] =
                  WeightVector(multiAMcoef.data[multiAMcoef.length - 1].a.length + 1, 4, 4)] }

\* the caller of ComplexAM.c before its first call
emptyAM ==
    [multiAMcoef |-> NULL, heap |-> {}, call |-> [op |-> "none", code |-> ""],
     arg |-> NULL, weighed |-> 0]

(* --------------------------------- state -------------------------------- *)
VARIABLES
    scan,       \* the caller's handle: NULL or the scan structure
    heap,       \* the blocks that are allocated
    lastCall,   \* the last call and what it returned
    path,       \* the indices that were current since the scan was set up or set
    sinceInit,  \* the initialisation succeeded and no index was set since
    lastArg,    \* what the last call was given: the search region and the failing
                \* call of an init, the index of a set-index, NULL otherwise
    probe,      \* a conversion or test applied to given values, with its result
    am          \* the caller of ComplexAM.c: its handle, the blocks, the last call

vars == << scan, heap, lastCall, path, sinceInit, lastArg, probe, am >>

Call(op, ret, code) == [op |-> op, ret |-> ret, code |-> code]

Init ==
    /\ scan = NULL
    /\ heap = {}
    /\ lastCall = Call("none", 0, "")
    /\ path = << >>
    /\ sinceInit = FALSE
    /\ lastArg = NULL
    /\ probe = NULL
    /\ am = emptyAM

DoInit ==
    /\ lastCall.op = "none"
    /\ \E sc \in Scenarios, fail \in InitFailures :
         LET r == InitDopplerLatticeScan(scan, heap, sc.init, sc.generator, fail)
         IN  /\ scan' = r.handle
             /\ heap' = r.heap
             /\ lastCall' = Call("init", IF r.code = "OK" THEN 0 ELSE -1, r.code)
             /\ path' = r.path
             /\ sinceInit' = (r.code = "OK")
             /\ lastArg' = [searchRegion |-> sc.init.searchRegion, fail |-> fail]
             /\ UNCHANGED << probe, am >>

DoAdvance ==
    /\ lastCall.op # "none"
    /\ \E alloc \in BOOLEAN :
         LET r == XLALadvanceLatticeIndex(scan, alloc)
         IN  /\ r.scan # NULL => InCap(r.scan.index)
             /\ scan' = r.scan
             /\ lastCall' = Call("advance", r.ret, "")
             /\ path' = IF r.ret = 0 THEN Append(path, r.scan.index) ELSE path
             /\ lastArg' = NULL
             /\ UNCHANGED << heap, sinceInit, probe, am >>

DoSetIndex ==
    /\ lastCall.op # "none"
    /\ \E index \in SetIndexInputs(IF scan = NULL THEN 3 ELSE scan.dimSearch) :
         LET r == XLALsetCurrentLatticeIndex(scan, index)
         IN  /\ scan' = r.scan
             /\ lastCall' = Call("set", r.ret, "")
             /\ path' = IF r.ret = 0 THEN << index >> ELSE path
             /\ sinceInit' = IF r.ret = 0 THEN FALSE ELSE sinceInit
             /\ lastArg' = index
             /\ UNCHANGED << heap, probe, am >>

DoGetIndex ==
    /\ lastCall.op # "none"
    /\ \E alloc \in BOOLEAN :
         LET r == XLALgetCurrentLatticeIndex(scan, alloc)
         IN  /\ lastCall' = Call("get", r.ret, "")
             /\ lastArg' = NULL
             /\ UNCHANGED << scan, heap, path, sinceInit, probe, am >>

DoCurrent ==
    /\ lastCall.op # "none"
    /\ LET r == XLALgetCurrentDopplerPos(scan)
       IN  /\ lastCall' = Call("current", r.ret, "")
           /\ lastArg' = NULL
           /\ UNCHANGED << scan, heap, path, sinceInit, probe, am >>

DoFree ==
    /\ lastCall.op # "none"
    /\ LET r == FreeDopplerLatticeScan(scan, heap)
       IN  /\ scan' = r.handle
           /\ heap' = r.heap
           /\ lastCall' = Call("free", IF r.code = "OK" THEN 0 ELSE -1, r.code)
           /\ path' = IF r.code = "OK" THEN << >> ELSE path
           /\ sinceInit' = IF r.code = "OK" THEN FALSE ELSE sinceInit
           /\ lastArg' = NULL
           /\ UNCHANGED << probe, am >>

Next == DoInit \/ DoAdvance \/ DoSetIndex \/ DoGetIndex \/ DoCurrent \/ DoFree

Spec == Init /\ [][Next]_vars

(* ------------------------- the lattice of a scan ------------------------ *)
\* the index vectors of dimension dim within the cap
IndexBox(dim) == [0 .. dim - 1 -> -MaxIndex .. MaxIndex]

\* the scan with its current index at the origin of the lattice
AtOrigin(s) == [s EXCEPT !.index = ZeroIndex(s.dimSearch)]

\* the scans that InitDopplerLatticeScan returns for the scenarios
ReadyScans ==
    { AtOrigin(r.handle) :
        r \in { i \in { InitDopplerLatticeScan(NULL, {}, sc.init, sc.generator, << "none", 0 >>) :
                          sc \in Scenarios } : i.code = "OK" } }

\* for each of them, the lattice indices within the cap whose Doppler point
\* isIndexInsideBoundary finds inside the boundary
InsideIndices ==
    [s \in ReadyScans |-> { i \in IndexBox(s.dimSearch) : isIndexInsideBoundary(i, s) = 1 }]

Range(seq) == { seq[k] : k \in 1 .. Len(seq) }

Ready == scan # NULL /\ scan.state = STATE_READY

(* -------------------------------- claims -------------------------------- *)
\* C1: after every advance that returns Advanced (0), the current index maps to a
\* Doppler point that is inside the boundary (isIndexInsideBoundary is TRUE, not an
\* error)
C1_AdvancedIndexIsInside ==
    (lastCall.op = "advance" /\ lastCall.ret = 0)
        => isIndexInsideBoundary(scan.index, scan) = 1

\* C2: an advance on a Ready scan during which the index -> Doppler transform of a
\* trial index fails returns an error and leaves the scan as it was
C2_TransformFailureSurfaces ==
    [][ (/\ lastCall'.op = "advance"
         /\ Ready
         /\ \E t \in AdvanceTrials(scan, scan.index, 0) : XLALindexToDoppler(t, scan).rc # 0)
        => (lastCall'.ret = -1 /\ scan' = scan) ]_vars

\* C3: when advance, called again and again from the state that init returned,
\* reports that no lattice points are left, every lattice index inside the boundary
\* has been the current index
C3_NoInsideIndexSkipped ==
    (lastCall.op = "advance" /\ lastCall.ret = 1 /\ sinceInit /\ Ready)
        => InsideIndices[AtOrigin(scan)] \subseteq Range(path)

\* C4: in a sequence of advance calls with no set-index in between, no index vector
\* is current twice
C4_NoIndexVisitedTwice ==
    \A i, j \in 1 .. Len(path) : i # j => path[i] # path[j]

\* C4 witness: a scan has walked up an axis, turned to the negative side and moved on
\* to the next axis
C4_Witness ==
    /\ lastCall.op = "advance" /\ lastCall.ret = 0
    /\ Len(path) >= 5
    /\ \E i \in 1 .. Len(path) : path[i][0] < 0
    /\ \E i \in 1 .. Len(path) : path[i][1] # 0

\* C5: a scan of a bounded region runs out of lattice points: since the scan was
\* initialised, advance has not returned Advanced more often than there are
\* lattice indices inside the boundary
C5_AdvanceRunsOut ==
    (lastCall.op = "advance" /\ lastCall.ret = 0 /\ sinceInit /\ Ready)
        => Len(path) - 1 <= Cardinality(InsideIndices[AtOrigin(scan)])

\* C6: when advance finds no further inside index (it returns 1) the scan is in the
\* state Finished, and a scan that is Finished stays Finished
C6_AdvanceFinishes ==
    [][ /\ (lastCall'.op = "advance" /\ lastCall'.ret = 1 /\ scan' # NULL)
            => scan'.state = STATE_FINISHED
        /\ (scan # NULL /\ scan.state = STATE_FINISHED /\ lastCall'.op \in {"advance", "set", "current"})
            => (scan' # NULL /\ scan'.state = STATE_FINISHED) ]_vars

\* C7: immediately after a successful init the scan is Ready and its current index
\* is the zero vector
C7_InitStartsAtOrigin ==
    (lastCall.op = "init" /\ lastCall.ret = 0)
        => (scan.state = STATE_READY /\ scan.index = ZeroIndex(scan.dimSearch))

\* C8: after a successful init on a polygon of one or of at least three vertices,
\* the lattice origin converted back to a Doppler point is inside the boundary
C8_OriginIsInside ==
    (lastCall.op = "init" /\ lastCall.ret = 0 /\ scan.boundary.skyRegion.length # 2)
        => isDopplerInsideBoundary(
               convertCanonical2Doppler(scan.latticeOrigin, scan.boundary.hemisphere,
                                        scan.Tspan).doppler,
               scan.boundary) = 1

\* C9: when init fails before it hands the scan to the caller, nothing that the call
\* allocated is still allocated when it returns
C9_FailedInitReleasesAll ==
    (lastCall.op = "init" /\ lastCall.ret # 0 /\ scan = NULL) => heap = {}

\* C10: whenever init reports an error, the caller's handle is still NULL
C10_FailedInitLeavesHandleNull ==
    (lastCall.op = "init" /\ lastCall.ret # 0) => scan = NULL

\* the sky polygon has a vertex with nZ > 0 and a vertex with nZ < 0
OnBothHemispheres(points3D) ==
    /\ \E i \in DOMAIN points3D : points3D[i][3] > 0
    /\ \E i \in DOMAIN points3D : points3D[i][3] < 0

\* C11: an init on a sky polygon with a vertex of positive and a vertex of negative
\* ecliptic z fails and hands no scan to the caller, whatever the order of the
\* vertices and the vertices with z = 0 among them; when no call fails before the
\* hemisphere test the error is the invalid-input error DOPPLERSCANH_EINPUT of
\* setupSearchRegion
C11_BothHemispheresRejected ==
    (lastCall.op = "init" /\ OnBothHemispheres(lastArg.searchRegion.points3D))
        => /\ lastCall.ret # 0
           /\ scan = NULL
           /\ lastArg.fail[1] \notin { "LALCalloc(ret)", "ParseSkyRegionString",
                                      "LALCalloc(points3D)", "LALCalloc(points3D->data)" }
                => lastCall.code = "DOPPLERSCANH_EINPUT"

\* C11 witness: a rejected polygon whose first vertex has z = 0, with a southern
\* vertex before a northern one
C11_Witness ==
    /\ lastCall.op = "init" /\ lastCall.code = "DOPPLERSCANH_EINPUT"
    /\ lastArg.fail = << "none", 0 >>
    /\ LET p == lastArg.searchRegion.points3D
       IN  /\ Size(p) = 4 /\ p[0][3] = 0 /\ p[1][3] = -1 /\ p[2][3] = 0 /\ p[3][3] = 1

\* C12: an init on a sky polygon of exactly 2 vertices, in which no allocation and
\* no library call fails, reports an error and hands no scan to the caller
C12_TwoVerticesRejected ==
    (/\ lastCall.op = "init"
     /\ Size(lastArg.searchRegion.points3D) = 2
     /\ lastArg.fail = << "none", 0 >>)
        => (lastCall.ret # 0 /\ scan = NULL)

\* C13: a set-index on a Ready scan with an index vector of the scan's dimension
\* succeeds and makes that vector the current index, nothing else of the scan
\* changing; with no vector or a vector of another dimension it returns an error and
\* leaves the scan as it was
C13_SetIndexChecksDimensionOnly ==
    [][ (lastCall'.op = "set" /\ Ready)
        => IF lastArg' # NULL /\ Size(lastArg') = scan.dimSearch
           THEN lastCall'.ret = 0 /\ scan' = [scan EXCEPT !.index = lastArg']
           ELSE lastCall'.ret # 0 /\ scan' = scan ]_vars

\* C13 witness: a set-index has succeeded with an index whose Doppler point is
\* outside the boundary, and the scan is Ready
C13_Witness ==
    /\ lastCall.op = "set" /\ lastCall.ret = 0
    /\ Ready /\ scan.index = lastArg
    /\ isIndexInsideBoundary(scan.index, scan) = 0

\* fkdot[s] lies in [fkdot0[s], fkdot0[s] + band[s]] of the boundary, as gsl_fcmp
\* compares
SpinInRange(pos, boundary, s) ==
    /\ gsl_fcmp(pos.fkdot[s], boundary.fkRange.fkdot[s]) >= 0
    /\ gsl_fcmp(pos.fkdot[s],
                QAdd(boundary.fkRange.fkdot[s], boundary.fkRange.fkdotBand[s])) <= 0

\* C14: the point that current returns after an init and any number of advance calls
\* has every active spin (s < dimSearch - 2) within the spin range of the boundary
C14_CurrentSpinsInRange ==
    (lastCall.op = "current" /\ lastCall.ret = 0 /\ sinceInit)
        => \A s \in 0 .. scan.dimSearch - 3 :
             SpinInRange(XLALgetCurrentDopplerPos(scan).pos, scan.boundary, s)

\* the search region is a single point: a 1-point polygon and all spin bands zero
OnePointRegion(searchRegion) ==
    /\ Size(searchRegion.points3D) = 1
    /\ \A s \in 0 .. numSpinsMax - 1 : searchRegion.fkdotBand[s] = QZero

\* C15: for a search region that is a single point, an init in which no call fails
\* succeeds; the first advance after it does not return Advanced, and when it
\* returns 1 (no more lattice points) a current succeeds on the scan and returns the
\* point of the region
C15_OnePointRegion ==
    [][ /\ (/\ lastCall'.op = "init"
            /\ OnePointRegion(lastArg'.searchRegion)
            /\ lastArg'.fail = << "none", 0 >>)
           => lastCall'.ret = 0
        /\ (/\ lastCall.op = "init" /\ lastCall.ret = 0
            /\ OnePointRegion(lastArg.searchRegion)
            /\ lastCall'.op = "advance")
           => /\ lastCall'.ret # 0
              /\ lastCall'.ret = 1
                   => /\ XLALgetCurrentDopplerPos(scan').ret = 0
                      /\ vnX(XLALgetCurrentDopplerPos(scan').pos)
                           = lastArg.searchRegion.points3D[0][1]
                      /\ vnY(XLALgetCurrentDopplerPos(scan').pos)
                           = lastArg.searchRegion.points3D[0][2]
                      /\ XLALgetCurrentDopplerPos(scan').pos.fkdot
                           = lastArg.searchRegion.fkdot ]_vars

\* the blocks that a scan owns
ScanBlocks == {"scan", "skyRegion.data", "latticeOrigin", "latticeGenerator", "index"}

\* C16: a destroy of a Ready scan, after init and any number of advance calls,
\* succeeds, releases the scan structure, the polygon storage, the origin vector, the
\* generator matrix and the index vector, releases nothing else, and sets the
\* caller's handle to NULL
C16_DestroyReleasesScan ==
    [][ (lastCall'.op = "free" /\ Ready)
        => /\ lastCall'.ret = 0
           /\ scan' = NULL
           /\ heap' = heap \ ScanBlocks ]_vars

\* C16 witness: a scan that had advanced was destroyed: the handle is NULL and no
\* block of the scan is allocated
C16_Witness ==
    /\ lastCall.op = "free" /\ lastCall.ret = 0
    /\ scan = NULL
    /\ heap \cap ScanBlocks = {}
    /\ "index(test 3)" \in heap

\* C17: current returns an error when the handle is NULL or the scan is not Ready
\* (Idle or Finished), and a call of current changes nothing of the scan: not its
\* index, state, boundary, origin or generator
C17_CurrentReadsOnly ==
    [][ /\ Ready => \A st \in {STATE_IDLE, STATE_FINISHED} :
                      XLALgetCurrentDopplerPos([scan EXCEPT !.state = st]).ret = -1
        /\ lastCall'.op = "current"
             => /\ ~ Ready => lastCall'.ret = -1
                /\ scan' = scan
                /\ heap' = heap ]_vars

\* C17 witness: current has returned a point for a Ready scan that had advanced
C17_Witness ==
    /\ lastCall.op = "current" /\ lastCall.ret = 0
    /\ Ready /\ Len(path) >= 2

\* product of f(k) for k in 0 .. n-1
RECURSIVE IProduct(_, _)
IProduct(f, n) == IF n = 0 THEN 1 ELSE IProduct(f, n - 1) * f[n - 1]

\* j lies in the axis-aligned box between the zero index and i
InBoxTo(j, i) ==
    \A k \in DOMAIN i : IF i[k] >= 0 THEN j[k] \in 0 .. i[k] ELSE j[k] \in i[k] .. 0

\* for each scan that init returns, the indices i for which every index of the box
\* between the zero index and i is inside the boundary
BoxInsideIndices ==
    [s \in ReadyScans |->
        { i \in InsideIndices[s] :
            Cardinality({ j \in InsideIndices[s] : InBoxTo(j, i) })
                = IProduct([k \in DOMAIN i |-> Abs(i[k]) + 1], Size(i)) }]

RECURSIVE AddRows(_, _, _, _)
AddRows(point, index, generator, n) ==
    IF n = 0 THEN point
    ELSE LET before == AddRows(point, index, generator, n - 1)
         IN  [k \in DOMAIN point |->
                IF k \in DOMAIN generator[n - 1]
                THEN QAdd(before[k], QInt(index[n - 1] * generator[n - 1][k]))
                ELSE before[k]]

\* the current index, the zero index and the trial indices of the next advance
NearIndices == {scan.index, ZeroIndex(scan.dimSearch)} \cup AdvanceTrials(scan, scan.index, 0)

\* C19: for an index vector i of the scan's dimension, the canonical point that
\* index -> Doppler converts is O + sum over j of i[j] * (row j of G), and the Doppler
\* point is the conversion of that point; the zero index gives O itself
C19_CanonicalPointOnLattice ==
    Ready =>
      \A i \in NearIndices :
        /\ indexToCanonicalOffset(Size(scan.latticeOrigin), i, scan.latticeGenerator).rc = 0
        /\ CanonicalPoint(indexToCanonicalOffset(Size(scan.latticeOrigin), i,
                                                 scan.latticeGenerator), scan)
             = AddRows(scan.latticeOrigin, i, scan.latticeGenerator, scan.dimSearch)
        /\ XLALindexToDoppler(i, scan)
             = IndexToDopplerResult(
                   convertCanonical2Doppler(
                       AddRows(scan.latticeOrigin, i, scan.latticeGenerator, scan.dimSearch),
                       scan.boundary.hemisphere, scan.Tspan))
        /\ i = ZeroIndex(scan.dimSearch)
             => AddRows(scan.latticeOrigin, i, scan.latticeGenerator, scan.dimSearch)
                  = scan.latticeOrigin

\* C19 witness: a scan with a sheared generator stands on an index with two nonzero
\* components
C19_Witness ==
    /\ Ready
    /\ scan.latticeGenerator = Sheared
    /\ scan.index[0] # 0 /\ scan.index[1] # 0
    /\ XLALindexToDoppler(scan.index, scan).rc = 0

\* the canonical point {w0, kX, kY, ...} has nX^2 + nY^2 > 1, where nX = - kX / f,
\* nY = - kY / f and f = w0 / Tspan: (kX^2 + kY^2) * Tspan^2 > w0^2
OutsideUnitDisk(canonical, Tspan) ==
    QLt(SQUARE(canonical[0]),
        QMul(QAdd(SQUARE(canonical[1]), SQUARE(canonical[2])), QInt(Tspan * Tspan)))

\* C20: index -> Doppler returns an error for every index whose canonical point
\* O + i.G has nX^2 + nY^2 > 1
C20_OutsideUnitDiskIsError ==
    Ready =>
      \A i \in NearIndices :
        OutsideUnitDisk(AddRows(scan.latticeOrigin, i, scan.latticeGenerator,
                                scan.dimSearch), scan.Tspan)
          => XLALindexToDoppler(i, scan).rc = -1

\* C20 witness: current has failed on a Ready scan whose current index has a
\* canonical point outside the unit disk
C20_Witness ==
    /\ Ready
    /\ lastCall.op = "current" /\ lastCall.ret = -1
    /\ OutsideUnitDisk(AddRows(scan.latticeOrigin, scan.index, scan.latticeGenerator,
                               scan.dimSearch), scan.Tspan)

(* ------------- conversions and tests applied to given values ------------ *)
\* the sky directions on the grid with nX^2 + nY^2 < 1, north or south
SkyPoints ==
    { Pt(xy[1], xy[2], z) :
        xy \in { c \in (-SkyScale .. SkyScale) \X (-SkyScale .. SkyScale) :
                   c[1] * c[1] + c[2] * c[2] < SkyScale * SkyScale },
        z \in {-1, 1} }

\* spins of Doppler points: the frequency is zero or positive, the spindowns have
\* either sign
PointSpins ==
    { Spins(<< f0, f1, f2, f3 >>) :
        f0 \in {0, 1, 12}, f1 \in {-1, 0, 2}, f2 \in {0, 1}, f3 \in {-3, 0} }

\* convertCanonical2Doppler on the vector that convertDoppler2Canonical returns, as
\* InitDopplerLatticeScan converts back the origin that setupSearchRegion converted
RoundTrip(doppler, hemi, Tspan, canonical) ==
    [op |-> "roundtrip", doppler |-> doppler, hemi |-> hemi, Tspan |-> Tspan,
     canonical |-> canonical,
     back |-> IF canonical.rc # 0 THEN [rc |-> -1, doppler |-> empty_dopplerParams]
              ELSE convertCanonical2Doppler(canonical.vec, hemi, Tspan)]

DoRoundTrip ==
    /\ probe = NULL
    /\ \E vn \in SkyPoints, fkdot \in PointSpins, Tspan \in {1, 2, 3}, alloc \in BOOLEAN :
         probe' = RoundTrip([vn |-> vn, fkdot |-> fkdot], VECT_HEMI(vn), Tspan,
                            convertDoppler2Canonical(NULL, [vn |-> vn, fkdot |-> fkdot],
                                                     Tspan, alloc))
    /\ UNCHANGED << scan, heap, lastCall, path, sinceInit, lastArg, am >>

\* sky regions for the test of points against a polygon: the last is a triangle
TestRegions ==
    {Square, Dart, NearEdge, Array(<< Pt(-3, -1, 1), Pt(3, -1, 1), Pt(0, 4, 1) >>)}

\* the polygon boundary.skyRegion that setupSearchRegion stores for a sky region
SkyRegionOf(points3D) ==
    SetupBoundary(emptyScan, [points3D |-> points3D, fkdot |-> NoBand.fkdot,
                              fkdotBand |-> NoBand.fkdotBand]).boundary.skyRegion

\* the points {nX, nY} of the grid
GridPoints ==
    { << Q(x, SkyScale), Q(y, SkyScale) >> :
        x \in -SkyScale .. SkyScale, y \in -SkyScale .. SkyScale }

\* vect2DInPolygon on a point of the grid and the polygon of a sky region
DoInPolygon ==
    /\ probe = NULL
    /\ \E points3D \in TestRegions, point \in GridPoints :
         probe' = [op |-> "inpolygon", point |-> point, polygon |-> SkyRegionOf(points3D),
                   inside |-> vect2DInPolygon(point, SkyRegionOf(points3D))]
    /\ UNCHANGED << scan, heap, lastCall, path, sinceInit, lastArg, am >>

\* spin ranges: the last has a band in every order
TestRanges ==
    {NoBand, FreqBand, SpindownBand,
     [fkdot |-> Spins(<< 12, -1, 0, -2 >>), fkdotBand |-> Spins(<< 1, 2, 1, 3 >>)]}

\* the boundary that setupSearchRegion stores for a sky region and a spin range
BoundaryOf(points3D, range) ==
    [SetupBoundary(emptyScan, [points3D |-> points3D, fkdot |-> range.fkdot,
                               fkdotBand |-> range.fkdotBand]).boundary
       EXCEPT !.hemisphere = onWhichHemisphere(points3D)]

\* spins at the ends of the range, and one below and one above it, in each order
SpinsAround(range) ==
    { [s \in 0 .. numSpinsMax - 1 |->
         IF at[s] = 0 THEN QSub(range.fkdot[s], QOne)
         ELSE IF at[s] = 1 THEN range.fkdot[s]
         ELSE IF at[s] = 2 THEN QAdd(range.fkdot[s], range.fkdotBand[s])
         ELSE QAdd(QAdd(range.fkdot[s], range.fkdotBand[s]), QOne)] :
      at \in [0 .. numSpinsMax - 1 -> 0 .. 3] }

\* isDopplerInsideBoundary on a Doppler point and the boundary of the square sky
\* region: the sky position is in the square, in it but southern, or not in it
DoInsideBoundary ==
    /\ probe = NULL
    /\ \E range \in TestRanges, vn \in {Pt(0, 0, 1), Pt(0, 0, -1), Pt(4, 0, 1)} :
         \E fkdot \in SpinsAround(range) :
           probe' = [op |-> "inside", doppler |-> [vn |-> vn, fkdot |-> fkdot],
                     boundary |-> BoundaryOf(Square, range),
                     inside |-> isDopplerInsideBoundary([vn |-> vn, fkdot |-> fkdot],
                                                        BoundaryOf(Square, range))]
    /\ UNCHANGED << scan, heap, lastCall, path, sinceInit, lastArg, am >>

NextFn == DoRoundTrip \/ DoInPolygon \/ DoInsideBoundary

SpecFn == Init /\ [][NextFn]_vars

\* C21 as stated, for every Doppler point with nX^2 + nY^2 < 1: converting it to
\* canonical form and back, with the hemisphere of the point and the same time
\* span, succeeds and gives the point again: nX, nY, nZ and every fkdot[s]
C21_RoundTripReproduces ==
    (probe # NULL /\ probe.op = "roundtrip" /\ probe.canonical.rc = 0)
        => (probe.back.rc = 0 /\ probe.back.doppler = probe.doppler)

\* C21, for the Doppler points with nX^2 + nY^2 < 1 and a frequency fkdot[0] that
\* is not zero: converting the point to canonical form and back, with the
\* hemisphere of the point and the same time span, succeeds and gives the point
\* again: nX, nY, nZ and every fkdot[s]
C21_RoundTripAtNonzeroFrequency ==
    (probe # NULL /\ probe.op = "roundtrip" /\ probe.canonical.rc = 0
       /\ probe.doppler.fkdot[0] # QZero)
        => (probe.back.rc = 0 /\ probe.back.doppler = probe.doppler)

\* C21 witness: a southern point off the axes with spindowns of both signs came
\* back from a round trip over a time span of 3
C21_Witness ==
    /\ probe # NULL /\ probe.op = "roundtrip" /\ probe.back.rc = 0
    /\ probe.Tspan = 3 /\ probe.hemi = HEMI_SOUTH
    /\ probe.doppler.vn = Pt(2, -3, -1)
    /\ probe.doppler.fkdot = Spins(<< 12, -1, 1, -3 >>)
    /\ probe.back.doppler = probe.doppler

(* ----------------------- the calls into ComplexAM.c ---------------------- *)
\* LALGetMultiCmplxAMCoeffs on the caller's handle, in a build with or without the
\* ASSERTs
DoGetMulti ==
    /\ am.call.op = "none"
    /\ \E multiDetStates \in MultiDetectorStates, fail \in AMFailures, assertions \in BOOLEAN :
         LET r == LALGetMultiCmplxAMCoeffs(am.multiAMcoef, am.heap, multiDetStates, fail,
                                           assertions)
         IN  am' = [multiAMcoef |-> r.multiAMcoef, heap |-> r.heap,
                    call |-> [op |-> "get", code |-> r.code],
                    arg |-> [multiDetStates |-> multiDetStates, fail |-> fail],
                    weighed |-> 0]
    /\ UNCHANGED << scan, heap, lastCall, path, sinceInit, lastArg, probe >>

\* XLALWeighMultiCmplxAMCoeffs on the caller's handle
DoWeigh ==
    /\ am.call.op # "none" /\ am.call.code # SIGSEGV
    /\ am.weighed < MaxWeighs
    /\ \E multiWeights \in WeightInputs(am.multiAMcoef) :
         LET r == XLALWeighMultiCmplxAMCoeffs(am.multiAMcoef, multiWeights)
         IN  am' = [am EXCEPT !.multiAMcoef = r.multiAMcoef,
                              !.call = [op |-> "weigh",
                                        code |-> IF r.ret = 0 THEN "XLAL_SUCCESS"
                                                 ELSE "XLAL_EINVAL"],
                              !.arg = multiWeights,
                              !.weighed = am.weighed + 1]
    /\ UNCHANGED << scan, heap, lastCall, path, sinceInit, lastArg, probe >>

\* XLALDestroyMultiCmplxAMCoeffs on the caller's handle, which the caller then
\* forgets
DoDestroyMulti ==
    /\ am.call.op # "none" /\ am.call.code # SIGSEGV
    /\ am' = [am EXCEPT !.heap = XLALDestroyMultiCmplxAMCoeffs(am.multiAMcoef, am.heap),
                        !.multiAMcoef = NULL,
                        !.call = [op |-> "destroy", code |-> "OK"],
                        !.arg = NULL]
    /\ UNCHANGED << scan, heap, lastCall, path, sinceInit, lastArg, probe >>

NextAM == DoGetMulti \/ DoWeigh \/ DoDestroyMulti

SpecAM == Init /\ [][NextAM]_vars

\* the blocks of a MultiCmplxAMCoeffs for numDetectors detectors
MultiBlocks(numDetectors) ==
    {RetBlock, DataBlock}
    \cup UNION { {EntryBlock(X), ABlock(X), BBlock(X)} : X \in 0 .. numDetectors - 1 }

\* the output has an entry with vectors a and b of the length of its series for
\* each detector of multiDetStates
FullyAllocated(multiAMcoef, multiDetStates) ==
    /\ multiAMcoef # NULL
    /\ multiAMcoef.length = Size(multiDetStates)
    /\ multiAMcoef.data # NULL
    /\ \A X \in DOMAIN multiDetStates :
         /\ multiAMcoef.data[X] # NULL
         /\ multiAMcoef.data[X].a # NULL /\ multiAMcoef.data[X].b # NULL
         /\ multiAMcoef.data[X].a.length = multiDetStates[X].length
         /\ multiAMcoef.data[X].b.length = multiDetStates[X].length

\* C22: LALGetMultiCmplxAMCoeffs either succeeds with an output that holds a fully
\* allocated entry for each detector, or fails, without the dereference of a null
\* pointer, with the caller's pointer still NULL and every block freed
C22_GetMultiAllOrNothing ==
    am.call.op = "get" =>
      \/ /\ am.call.code = "OK"
         /\ FullyAllocated(am.multiAMcoef, am.arg.multiDetStates)
         /\ am.heap = MultiBlocks(Size(am.arg.multiDetStates))
      \/ /\ am.call.code \notin {"OK", SIGSEGV}
         /\ am.multiAMcoef = NULL
         /\ am.heap = {}

\* the sums Ad, Bd, Cd, Ed of a MultiCmplxAMCoeffs
ABCE(multiAMcoef) ==
    << multiAMcoef.Mmunu.Ad, multiAMcoef.Mmunu.Bd, multiAMcoef.Mmunu.Cd,
       multiAMcoef.Mmunu.Ed >>

\* C23: XLALWeighMultiCmplxAMCoeffs with weights = NULL gives the same Ad, Bd, Cd, Ed
\* and the same a, b as with weights that are all 1: a call with either succeeds
\* and leaves what the other would have left
C23_NullWeightsAreUnitWeights ==
    [][ (am'.call.op = "weigh" /\ am.multiAMcoef # NULL
           /\ am'.arg \in {NULL, WeightsFor(am.multiAMcoef, 1, 1)})
        => /\ am'.call.code = "XLAL_SUCCESS"
           /\ \A multiWeights \in {NULL, WeightsFor(am.multiAMcoef, 1, 1)} :
                LET r == XLALWeighMultiCmplxAMCoeffs(am.multiAMcoef, multiWeights)
                IN  /\ r.ret = 0
                    /\ ABCE(r.multiAMcoef) = ABCE(am'.multiAMcoef)
                    /\ r.multiAMcoef.data = am'.multiAMcoef.data ]_vars

\* C23 witness: the coefficients of two detectors, weighed with weights of 4 before,
\* were weighed with weights = NULL
C23_Witness ==
    /\ am.call.op = "weigh" /\ am.call.code = "XLAL_SUCCESS" /\ am.arg = NULL
    /\ am.weighed = 2
    /\ am.multiAMcoef.length = 2
    /\ am.multiAMcoef.data[1].a.length = 2
    /\ am.multiAMcoef.data[0].a.data[0] = Cmplx(2, 0)
    /\ am.multiAMcoef.Mmunu.Ad > 0

\* C30: when XLALWeighMultiCmplxAMCoeffs returns an error, for weights of another
\* number of detectors or a weight vector of another length than the coefficients
\* of its detector, it has changed no coefficient a or b and no field of Mmunu
C30_FailedWeighChangesNothing ==
    [][ (am'.call.op = "weigh" /\ am'.call.code = "XLAL_EINVAL")
        => am'.multiAMcoef = am.multiAMcoef ]_vars

\* the index with every axis below a at 0 and axis a at v
Collapsed(index, a, v) ==
    [k \in DOMAIN index |-> IF k < a THEN 0 ELSE IF k = a THEN v ELSE index[k]]

\* the trials of axis a from the index: one step up and then -1 from an index that
\* is not negative on the axis, one step down from one that is
AxisTrials(index, a) ==
    IF index[a] >= 0
    THEN << Collapsed(index, a, index[a] + 1), Collapsed(index, a, -1) >>
    ELSE << Collapsed(index, a, index[a] - 1) >>

\* the first of the trials of axis a that is inside the boundary of scan s, NULL
\* if none is
AxisStep(index, a, s) ==
    LET trials == AxisTrials(index, a)
        inside == { n \in 1 .. Len(trials) : isIndexInsideBoundary(trials[n], s) = 1 }
    IN  IF inside = {} THEN NULL
        ELSE trials[CHOOSE n \in inside : \A m \in inside : n <= m]

\* C24: when advance from index i, on a scan that was set up, returns Advanced, the
\* new index is the first
\* trial inside the boundary (i[a] + 1, then -1, for i[a] >= 0; i[a] - 1 for
\* i[a] < 0; the axes below a at 0) of the lowest axis a that has such a trial
C24_AdvanceTakesFirstInsideTrial ==
    [][ (sinceInit /\ lastCall'.op = "advance" /\ lastCall'.ret = 0)
        => \E a \in 0 .. scan.dimSearch - 1 :
             /\ AxisStep(scan.index, a, scan) # NULL
             /\ scan'.index = AxisStep(scan.index, a, scan)
             /\ \A b \in 0 .. a - 1 : AxisStep(scan.index, b, scan) = NULL ]_vars

\* the point lies on the side of the polygon from vertex v1 to vertex v2, ends
\* included
OnSide(point, v1, v2) ==
    /\ QMul(QSub(v2[1], v1[1]), QSub(point[2], v1[2]))
         = QMul(QSub(v2[2], v1[2]), QSub(point[1], v1[1]))
    /\ QLe(QMin(v1[1], v2[1]), point[1]) /\ QLe(point[1], QMax(v1[1], v2[1]))
    /\ QLe(QMin(v1[2], v2[2]), point[2]) /\ QLe(point[2], QMax(v1[2], v2[2]))

\* the point is a vertex of the polygon or lies on one of its sides
OnBoundary(point, polygon) ==
    \E i \in 0 .. polygon.length - 1 :
        OnSide(point, polygon.data[i], polygon.data[(i + 1) % polygon.length])

\* C25: for a polygon of at least 3 vertices, vect2DInPolygon finds every vertex of
\* the polygon and every point on one of its sides inside
C25_BoundaryPointsInside ==
    (probe # NULL /\ probe.op = "inpolygon" /\ probe.polygon.length >= 3
       /\ OnBoundary(probe.point, probe.polygon))
        => probe.inside = 1

\* fkdot[s] lies in the range of order s of the boundary, ends included
InSpinRange(doppler, boundary, s) ==
    /\ QLe(boundary.fkRange.fkdot[s], doppler.fkdot[s])
    /\ QLe(doppler.fkdot[s], QAdd(boundary.fkRange.fkdot[s], boundary.fkRange.fkdotBand[s]))

\* C26: a Doppler point whose sky position is inside passes isDopplerInsideBoundary
\* if and only if its fkdot[s] lies in the range of the boundary, the lower bound
\* fkdot0[s] and the upper bound fkdot0[s] + band[s] included, for every one of the
\* numSpinsMax orders s
C26_SpinBoxIsClosed ==
    (probe # NULL /\ probe.op = "inside"
       /\ vect2DInPolygon(<< vnX(probe.doppler), vnY(probe.doppler) >>,
                          probe.boundary.skyRegion) = 1
       /\ VECT_HEMI(probe.doppler.vn) = probe.boundary.hemisphere)
        => (probe.inside = 1
              <=> \A s \in 0 .. numSpinsMax - 1 : InSpinRange(probe.doppler, probe.boundary, s))

\* C26 witness: a point with fkdot[0] and fkdot[1] at the upper bounds of their
\* bands, and the spins of the orders without band at their only value, is inside
C26_Witness ==
    /\ probe # NULL /\ probe.op = "inside" /\ probe.inside = 1
    /\ probe.boundary.fkRange.fkdotBand = SpindownBand.fkdotBand
    /\ probe.doppler.fkdot[1] = QInt(1)
    /\ probe.doppler.fkdot[3] = QZero

\* the active spin dimension s*: 1 if no band of an order >= 1 is non-zero, else one
\* plus the largest order with a non-zero band
SpinStar(fkdotBand) ==
    LET orders == { s \in 1 .. numSpinsMax - 1 : fkdotBand[s] # QZero }
    IN  IF orders = {} THEN 1
        ELSE 1 + (CHOOSE s \in orders : \A t \in orders : t <= s)

\* C27: the search dimension D of a scan that was set up is 2 + s*, with
\* 3 <= D <= 2 + numSpinsMax, and the index vector and the generator have
\* dimension D
C27_SearchDimension ==
    Ready =>
      /\ scan.dimSearch = 2 + SpinStar(scan.boundary.fkRange.fkdotBand)
      /\ 3 <= scan.dimSearch /\ scan.dimSearch <= 2 + numSpinsMax
      /\ Size(scan.index) = scan.dimSearch
      /\ Size(scan.latticeGenerator) = scan.dimSearch
      /\ \A j \in DOMAIN scan.latticeGenerator :
           Size(scan.latticeGenerator[j]) = scan.dimSearch

\* C27 witness: an init with a band in the first spindown only has succeeded, with
\* D = 4
C27_Witness ==
    /\ lastCall.op = "init" /\ lastCall.code = "OK"
    /\ Ready
    /\ scan.boundary.fkRange.fkdotBand = SpindownBand.fkdotBand
    /\ scan.dimSearch = 4

C29_InactiveSpinsStay ==
    Ready =>
      \A i \in NearIndices :
        \A s \in scan.dimSearch - 2 .. numSpinsMax - 1 :
          /\ scan.boundary.fkRange.fkdotBand[s] = QZero
          /\ XLALindexToDoppler(i, scan).rc = 0
               => /\ XLALindexToDoppler(i, scan).doppler.fkdot[s]
                       = scan.boundary.fkRange.fkdot[s]
                  /\ XLALindexToDoppler(i, scan).doppler.fkdot[s]
                       = XLALindexToDoppler(ZeroIndex(scan.dimSearch), scan).doppler.fkdot[s]

\* C29 witness: current has succeeded on a scan of dimension 4 that has stepped
\* along its spindown axis; fkdot[1] is off its lower bound, fkdot[2] and fkdot[3]
\* are on theirs
C29_Witness ==
    /\ Ready /\ lastCall.op = "current" /\ lastCall.ret = 0
    /\ scan.dimSearch = 4
    /\ scan.index[3] # 0
    /\ XLALindexToDoppler(scan.index, scan).doppler.fkdot[1] # scan.boundary.fkRange.fkdot[1]
    /\ XLALindexToDoppler(scan.index, scan).doppler.fkdot[2] = scan.boundary.fkRange.fkdot[2]

====
